---- MODULE Spec2Model ----
(***************************************************************************)
(* A model of dgeq: the command pipeline of GenericQuery.evaluate          *)
(* (src/dgeq/dgeq.py), its handlers (src/dgeq/commands.py), the attribute  *)
(* path resolver (src/dgeq/utils.py), the censor (src/dgeq/censor.py), the *)
(* error taxonomy (src/dgeq/exceptions.py) and the join tree               *)
(* (src/dgeq/joins.py).                                                    *)
(*                                                                         *)
(* The files of src/ come from different revisions of the library and do   *)
(* not agree on every interface.  Each definition below follows the body   *)
(* of the function it names.  Where a caller and a callee disagree on an   *)
(* argument list, the callee's definition is kept and the caller's         *)
(* arguments are matched by role:                                          *)
(*   - evaluate passes a handler the pair (field, lst) it dispatched on;   *)
(*     the handlers of commands.py read a query_dict.  A handler's         *)
(*     query_dict.get / getlist reads the input of the query, and          *)
(*     Filtering's query_dict.lists() is the dispatched pair;              *)
(*   - the callers of check_field pass (arbitrary_fields, hidden_fields);  *)
(*     check_field takes (censor, arbitrary_fields).  The visibility       *)
(*     argument is the query's censor, and hidden_fields.get(model) is the *)
(*     set of names the censor marks private for model;                    *)
(*   - the handlers split their lists with utils.split_list_strings, which *)
(*     utils.py defines under the name split_list_values.                  *)
(***************************************************************************)
EXTENDS Integers, Sequences, FiniteSets, TLC

(***************************************************************************)
(* Bounds of the model.                                                    *)
(***************************************************************************)
MaxPathLen == 3
MaxDepthSetting == 3
MaxKeys == 2

(***************************************************************************)
(* Program constants.                                                      *)
(***************************************************************************)
DGEQ_MAX_NESTED_FIELD_DEPTH == 10

(***************************************************************************)
(* The schema: three models of the test application.                       *)
(***************************************************************************)
Models == {"Country", "River", "Region"}

ScalarFields(model) ==
    CASE model = "Country" -> {"id", "name", "population"}
      [] model = "River"   -> {"id", "name", "length"}
      [] model = "Region"  -> {"id", "name"}

UniqueForeignFields(model) ==
    CASE model = "Country" -> {"region"}
      [] model = "River"   -> {}
      [] model = "Region"  -> {}

ManyForeignFields(model) ==
    CASE model = "Country" -> {"rivers"}
      [] model = "River"   -> {"countries"}
      [] model = "Region"  -> {"countries"}

RelatedModel(model, field) ==
    CASE model = "Country" /\ field = "region"   -> "Region"
      [] model = "Country" /\ field = "rivers"   -> "River"
      [] model = "River"   /\ field = "countries" -> "Country"
      [] model = "Region"  /\ field = "countries" -> "Country"

FieldNames(model) ==
    ScalarFields(model) \cup UniqueForeignFields(model) \cup ManyForeignFields(model)

RelationFields(model) == UniqueForeignFields(model) \cup ManyForeignFields(model)

\* model._meta.get_field(name) raises FieldDoesNotExist.  No name of the
\* schema ends with "_set", so the suffix stripping of get_field leaves every
\* name of the model unchanged.
FieldDoesNotExist(model, field) == field \notin FieldNames(model)

is_relation(model, field) == field \in RelationFields(model)

is_one(model, field) == field \in UniqueForeignFields(model)

is_many(model, field) == field \in ManyForeignFields(model)

(***************************************************************************)
(* Censor.  A censor is a record                                           *)
(*   public, private : the mappings given to the instance,                 *)
(*   dgeq_public, dgeq_private : DGEQ_PUBLIC_FIELDS / DGEQ_PRIVATE_FIELDS, *)
(*   use_permissions, perms : the flag, and the models the user may view.  *)
(* A mapping is a function whose domain is the set of models it declares.  *)
(***************************************************************************)
NoMapping == [m \in {} |-> {}]

NoCensor ==
    [public |-> NoMapping, private |-> NoMapping, dgeq_public |-> NoMapping,
     dgeq_private |-> NoMapping, use_permissions |-> FALSE, perms |-> {}]

CensorConfigs ==
    { NoCensor,
      [NoCensor EXCEPT !.private = [m \in {"Country"} |-> {"population"}]],
      [NoCensor EXCEPT !.private = [m \in {"Country", "River"} |->
            IF m = "Country" THEN {"region"} ELSE {"length", "countries"}]],
      [NoCensor EXCEPT !.public = [m \in {"River"} |-> {"id", "name"}]],
      [NoCensor EXCEPT !.public = [m \in {"Country"} |-> {"id", "name", "rivers"}],
                       !.private = [m \in {"Country"} |-> {"name"}]],
      [NoCensor EXCEPT !.dgeq_private = [m \in {"Country"} |-> {"population", "rivers"}]],
      [NoCensor EXCEPT !.dgeq_public = [m \in {"River"} |-> {"name", "countries"}],
                       !.private = [m \in {"River"} |-> {"name"}]],
      [NoCensor EXCEPT !.use_permissions = TRUE, !.perms = {"Country", "River"}],
      [NoCensor EXCEPT !.use_permissions = TRUE, !.perms = {"Country"},
                       !.private = [m \in {"Country"} |-> {"population"}]] }

\* is_private leaves by its raise statement: with use_permissions the field
\* is looked up first and a name that is no field of the model raises
\* UnknownFieldError.
is_private_raises(c, model, field) ==
    c.use_permissions /\ FieldDoesNotExist(model, field)

\* A censor that reads the project-wide lists before those of the instance.
is_private_settings_first(c, model, field) ==
    IF c.use_permissions /\ is_relation(model, field)
       /\ RelatedModel(model, field) \notin c.perms
    THEN TRUE
    ELSE IF model \in DOMAIN c.dgeq_public THEN field \notin c.dgeq_public[model]
    ELSE IF model \in DOMAIN c.dgeq_private THEN field \in c.dgeq_private[model]
    ELSE IF model \in DOMAIN c.public THEN field \notin c.public[model]
    ELSE IF model \in DOMAIN c.private THEN field \in c.private[model]
    ELSE FALSE

is_private(c, model, field) ==
    IF c.use_permissions /\ is_relation(model, field)
       /\ RelatedModel(model, field) \notin c.perms
    THEN TRUE
    ELSE IF model \in DOMAIN c.public THEN field \notin c.public[model]
    ELSE IF model \in DOMAIN c.private THEN field \in c.private[model]
    ELSE IF model \in DOMAIN c.dgeq_public THEN field \notin c.dgeq_public[model]
    ELSE IF model \in DOMAIN c.dgeq_private THEN field \in c.dgeq_private[model]
    ELSE FALSE

is_public(c, model, field) == ~is_private(c, model, field)

\* The set comprehension of Censor.censor; it raises when is_private does.
censor_raises(c, model, fields) ==
    \E f \in fields : is_private_raises(c, model, f)

censor(c, model, fields) ==
    {f \in fields : ~is_private_raises(c, model, f) /\ is_public(c, model, f)}

(***************************************************************************)
(* Exceptions.  One record shape for all of them; `details' lists the      *)
(* attributes an error puts into the failure envelope.  A field name that  *)
(* an error carries is kept as the sequence of its segments.               *)
(***************************************************************************)
NoException ==
    [kind |-> "none", dgeq |-> FALSE, code |-> "", str |-> <<>>,
     table |-> "", unknown |-> "", field |-> <<>>, command |-> "",
     valid_fields |-> {}, related_fields |-> {}, max_depth |-> 0,
     modifier |-> "", value |-> <<>>, type |-> ""]

\* The names of the fields of a model as they are before the censor.
valid_fields_uncensored(c, model) == FieldNames(model)

UnknownFieldError_valid_fields(c, model) == censor(c, model, FieldNames(model))

UnknownFieldError(model, unknown, c) ==
    [NoException EXCEPT !.kind = "UnknownFieldError", !.dgeq = TRUE,
        !.code = "UNKNOWN_FIELD", !.table = model, !.unknown = unknown,
        !.valid_fields = UnknownFieldError_valid_fields(c, model),
        !.str = <<"Unknown field", unknown, "in the table", model>>]

NotARelatedFieldError_related_fields(c, model) ==
    censor(c, model, RelationFields(model))

NotARelatedFieldError(model, field, c) ==
    [NoException EXCEPT !.kind = "NotARelatedFieldError", !.dgeq = TRUE,
        !.code = "NOT_A_RELATED_FIELD", !.table = model, !.field = field,
        !.related_fields = NotARelatedFieldError_related_fields(c, model),
        !.str = <<"Field in table", model, "is neither a foreign key nor a list">>]

FieldDepthError(field) ==
    [NoException EXCEPT !.kind = "FieldDepthError", !.dgeq = TRUE,
        !.code = "FIELD_DEPTH_ERROR", !.field = field,
        !.max_depth = DGEQ_MAX_NESTED_FIELD_DEPTH,
        !.str = <<"Field exceed the allowed depth of related field">>]

\* value is the text of the literal, type is type(value).__name__.
SearchModifierError(modifier, value, type) ==
    [NoException EXCEPT !.kind = "SearchModifierError", !.dgeq = TRUE,
        !.code = "INVALID_SEARCH_MODIFIER", !.modifier = modifier, !.value = value,
        !.type = type,
        !.str = <<"Search modifier", modifier, "cannot be used on type", type>>]

InvalidCommandError(command, message) ==
    [NoException EXCEPT !.kind = "InvalidCommandError", !.dgeq = TRUE,
        !.code = "INVALID_COMMAND_ERROR", !.command = command,
        !.str = <<"Invalid command", command, message>>]

\* An exception outside the DgeqError taxonomy, raised by the storage layer
\* or the schema introspection; `text' is str(e).
ExternalException(text) ==
    [NoException EXCEPT !.kind = "Exception", !.str = <<text>>]

details(e) ==
    CASE e.kind = "UnknownFieldError"     -> {"valid_fields", "unknown", "table"}
      [] e.kind = "NotARelatedFieldError" -> {"table", "field", "related_fields"}
      [] e.kind = "FieldDepthError"       -> {"field", "max_depth"}
      [] e.kind = "InvalidCommandError"   -> {"command"}
      [] e.kind = "SearchModifierError"   -> {"modifier", "value", "type"}
      [] OTHER                            -> {}

(***************************************************************************)
(* The attribute path resolver.  A path is the sequence of its segments    *)
(* (field.split(sep)); the result is either the pair (model, field) or the *)
(* exception raised.                                                       *)
(***************************************************************************)
Resolved(model, field) ==
    [ok |-> TRUE, model |-> model, field |-> field, exc |-> NoException]

Raised(e) == [ok |-> FALSE, model |-> "", field |-> "", exc |-> e]

\* _check_field without the question put to the censor.
RECURSIVE _check_field_uncensored(_, _, _, _)
_check_field_uncensored(fields, current_model, c, arbitrary_fields) ==
    LET token == Head(fields)
        subfields == Tail(fields)
    IN  IF token \in arbitrary_fields
        THEN IF subfields # <<>>
             THEN Raised(NotARelatedFieldError(current_model, <<token>>, c))
             ELSE Resolved(current_model, token)
        ELSE IF FieldDoesNotExist(current_model, token)
        THEN Raised(UnknownFieldError(current_model, token, c))
        ELSE IF subfields # <<>>
        THEN IF ~is_relation(current_model, token)
             THEN Raised(NotARelatedFieldError(current_model, <<token>>, c))
             ELSE _check_field_uncensored(subfields, RelatedModel(current_model, token), c, {})
        ELSE Resolved(current_model, token)

RECURSIVE _check_field(_, _, _, _)
_check_field(fields, current_model, c, arbitrary_fields) ==
    LET token == Head(fields)
        subfields == Tail(fields)
    IN  IF is_private_raises(c, current_model, token)
        THEN Raised(UnknownFieldError(current_model, token, c))
        ELSE IF is_private(c, current_model, token)
        THEN Raised(UnknownFieldError(current_model, token, c))
        ELSE IF token \in arbitrary_fields
        THEN IF subfields # <<>>
             THEN Raised(NotARelatedFieldError(current_model, <<token>>, c))
             ELSE Resolved(current_model, token)
        ELSE IF FieldDoesNotExist(current_model, token)
        THEN Raised(UnknownFieldError(current_model, token, c))
        ELSE IF subfields # <<>>
        THEN IF ~is_relation(current_model, token)
             THEN Raised(NotARelatedFieldError(current_model, <<token>>, c))
             ELSE _check_field(subfields, RelatedModel(current_model, token), c, {})
        ELSE Resolved(current_model, token)

\* check_field with the depth compared by > instead of >=.
check_field_one_deeper(field, model, c, arbitrary_fields, max_depth) ==
    IF Len(field) > max_depth
    THEN Raised(FieldDepthError(field))
    ELSE _check_field(field, model, c, arbitrary_fields)

\* max_depth is the setting DGEQ_MAX_NESTED_FIELD_DEPTH as read at the call.
check_field(field, model, c, arbitrary_fields, max_depth) ==
    IF Len(field) >= max_depth
    THEN Raised(FieldDepthError(field))
    ELSE _check_field(field, model, c, arbitrary_fields)

(***************************************************************************)
(* The input of a query: the list of (key, list of values) pairs of the    *)
(* QueryDict, in the order of the query string.  A value is a record: raw  *)
(* is its text, the other fields are the parsed sub-query of a c:annotate, *)
(* c:aggregate or c:join value (subquery_to_querydict) and stay at their   *)
(* defaults for the other keys.                                            *)
(***************************************************************************)
\* The characters of the text of a value given to a filter.
Chars(raw) ==
    CASE raw = ">5" -> <<">", "5">>
      [] raw = "^A" -> <<"^", "A">>
      [] raw = "~z" -> <<"~", "z">>
      [] OTHER      -> <<>>

Value(raw) ==
    [raw |-> raw, chars |-> Chars(raw), field |-> <<>>, func |-> "", to |-> "",
     filters |-> <<>>, early |-> "0", show |-> <<>>, hide |-> <<>>, start |-> "0",
     limit |-> "0", sort |-> <<>>]

Annotation_value(raw, field, to, early) ==
    [Value(raw) EXCEPT !.field = field, !.func = "count", !.to = to, !.early = early]

Join_value(raw, field, show, hide) ==
    [Value(raw) EXCEPT !.field = field, !.show = show, !.hide = hide]

\* The values offered for each key.
Values(key) ==
    CASE key = "c:case"      -> { <<Value("0")>>, <<Value("x")>> }
      [] key = "c:annotate"  ->
            { <<Annotation_value("a1", <<"rivers">>, "rc", "1")>>,
              <<Annotation_value("a0", <<"rivers">>, "rc0", "0")>>,
              <<Annotation_value("a2", <<"rivers">>, "population", "1")>>,
              <<Annotation_value("a1", <<"rivers">>, "rc", "1"),
                Annotation_value("a0", <<"rivers">>, "rc0", "0")>> }
      [] key = "population"  -> { <<Value(">5")>> }
      [] key = "name"        -> { <<Value("^A"), Value("~z")>> }
      [] key = "c:sort"      -> { <<Value("name")>>, <<Value("-population")>> }
      [] key = "c:limit"     -> { <<Value("2")>>, <<Value("-1")>> }
      [] key = "c:start"     -> { <<Value("1")>> }
      [] key = "c:join"      ->
            { <<Join_value("j1", <<"rivers">>, <<>>, <<>>)>>,
              <<Join_value("j2", <<"rivers", "countries">>, <<>>, <<"name">>)>>,
              <<Join_value("j3", <<"region">>, <<"name", "countries">>, <<>>)>>,
              <<Join_value("j4", <<"rivers", "countries", "region">>, <<>>, <<>>)>>,
              <<Join_value("j5", <<"population">>, <<>>, <<>>)>>,
              <<Join_value("j6", <<"rc">>, <<>>, <<>>)>>,
              <<Join_value("j2", <<"rivers", "countries">>, <<>>, <<"name">>),
                Join_value("j1", <<"rivers">>, <<"length">>, <<>>)>> }
      [] key = "c:showx"     -> { <<Value("1")>> }
      [] key = "c:hide"      -> { <<Value("name")>>, <<Value("population")>> }
      [] key = "c:show"      -> { <<Value("name"), Value("rivers")>>,
                                  <<Value("population"), Value("rc")>>,
                                  <<Value("name"), Value("region.name")>> }
      [] key = "c:aggregate" ->
            { <<Annotation_value("g1", <<"population">>, "pmax", "0")>> }
      [] key = "c:evaluate"  -> { <<Value("1")>> }
      [] key = "c:count"     -> { <<Value("1")>>, <<Value("x")>> }
      [] key = "c:time"      -> { <<Value("1")>> }

Keys ==
    {"c:case", "c:annotate", "population", "name", "c:sort", "c:limit",
     "c:start", "c:join", "c:show", "c:showx", "c:hide", "c:aggregate",
     "c:evaluate", "c:count", "c:time"}

\* The characters of a key, for the regular expressions of the handlers.
KeyChars(key) ==
    CASE key = "c:case"      -> <<"c", ":", "c", "a", "s", "e">>
      [] key = "c:annotate"  -> <<"c", ":", "a", "n", "n", "o", "t", "a", "t", "e">>
      [] key = "population"  -> <<"p", "o", "p", "u", "l", "a", "t", "i", "o", "n">>
      [] key = "name"        -> <<"n", "a", "m", "e">>
      [] key = "c:sort"      -> <<"c", ":", "s", "o", "r", "t">>
      [] key = "c:limit"     -> <<"c", ":", "l", "i", "m", "i", "t">>
      [] key = "c:start"     -> <<"c", ":", "s", "t", "a", "r", "t">>
      [] key = "c:join"      -> <<"c", ":", "j", "o", "i", "n">>
      [] key = "c:show"      -> <<"c", ":", "s", "h", "o", "w">>
      [] key = "c:showx"     -> <<"c", ":", "s", "h", "o", "w", "x">>
      [] key = "c:hide"      -> <<"c", ":", "h", "i", "d", "e">>
      [] key = "c:aggregate" -> <<"c", ":", "a", "g", "g", "r", "e", "g", "a", "t", "e">>
      [] key = "c:evaluate"  -> <<"c", ":", "e", "v", "a", "l", "u", "a", "t", "e">>
      [] key = "c:count"     -> <<"c", ":", "c", "o", "u", "n", "t">>
      [] key = "c:time"      -> <<"c", ":", "t", "i", "m", "e">>
      [] key = "c:timex"     -> <<"c", ":", "t", "i", "m", "e", "x">>
      [] key = "c:related"   -> <<"c", ":", "r", "e", "l", "a", "t", "e", "d">>
      [] key = "capital"     -> <<"c", "a", "p", "i", "t", "a", "l">>
      [] key = "hide"        -> <<"h", "i", "d", "e">>

\* field.split("."): the segments of a key or of a listed name.
Segments(name) ==
    CASE name = "region.name" -> <<"region", "name">>
      [] name = "rivers.length" -> <<"rivers", "length">>
      [] OTHER -> <<name>>

\* f if not f.startswith("-") else f[1:]
StripHyphen(name) ==
    CASE name = "-population" -> "population"
      [] name = "-name"       -> "name"
      [] name = "-length"     -> "length"
      [] name = "-id"         -> "id"
      [] OTHER -> name

\* The text of the one character U+00B2, superscript two.
SuperscriptTwo == "U+00B2"

\* str.isdigit() holds of the texts made of digit characters; the
\* superscript two is one of them, and is no decimal digit.
isdigit(raw) == raw \in {"0", "1", "2", "200", "201", SuperscriptTwo}

\* int(raw) raises ValueError on a text that is no decimal number.
int_raises(raw) == raw = SuperscriptTwo

ValueError == ExternalException("invalid literal for int() with base 10")

int(raw) ==
    CASE raw = "0"   -> 0
      [] raw = "1"   -> 1
      [] raw = "2"   -> 2
      [] raw = "200" -> 200
      [] raw = "201" -> 201

\* QueryDict.getlist(key) and QueryDict.get(key, default) on the input.
getlist(query_dict_list, key) ==
    IF \E n \in 1..Len(query_dict_list) : query_dict_list[n].key = key
    THEN query_dict_list[CHOOSE n \in 1..Len(query_dict_list) :
                            query_dict_list[n].key = key].lst
    ELSE <<>>

get(query_dict_list, key, default) ==
    LET lst == getlist(query_dict_list, key)
    IN  IF lst = <<>> THEN default ELSE lst[Len(lst)].raw

(***************************************************************************)
(* The storage layer's query descriptor.  A queryset is the list of the    *)
(* operations chained on it, and whether a slice has been taken.  filter   *)
(* and order_by refuse a sliced queryset, and annotate refuses a name of a *)
(* field of the model, each with an exception of the storage layer.        *)
(***************************************************************************)
Op(op, name) ==
    [op |-> op, name |-> name, path |-> <<>>, early |-> FALSE, start |-> 0, limit |-> 0,
     nodes |-> {}, lookup |-> "", value |-> <<>>, type |-> "", negated |-> FALSE,
     filter |-> <<>>]

QuerySet_all == [ops |-> <<>>, sliced |-> FALSE]

Chained(queryset, o) == [queryset EXCEPT !.ops = Append(@, o)]

CannotFilter == ExternalException("Cannot filter a query once a slice has been taken.")

CannotReorder == ExternalException("Cannot reorder a query once a slice has been taken.")

AnnotationConflicts == ExternalException("The annotation conflicts with a field on the model.")

FieldDoesNotExistException == ExternalException("Model has no field named")

\* queryset[start:start + limit], or queryset[start:] when limit is 0.
QuerySet_slice(queryset, start, limit) ==
    [ops |-> Append(queryset.ops, [Op("slice", "") EXCEPT !.start = start, !.limit = limit]),
     sliced |-> queryset.sliced \/ start # 0 \/ limit # 0]

\* The rows of table[start:start + limit], or of table[start:] when limit
\* is 0.
Slice(table, start, limit) ==
    SubSeq(table, start + 1,
           IF limit = 0 \/ start + limit > Len(table) THEN Len(table) ELSE start + limit)

\* The rows the storage layer gives for a queryset over a table: its slices
\* are taken in turn.
RECURSIVE QuerySet_rows(_, _)
QuerySet_rows(ops, table) ==
    IF ops = <<>> THEN table
    ELSE QuerySet_rows(Tail(ops),
                       IF Head(ops).op = "slice"
                       THEN Slice(table, Head(ops).start, Head(ops).limit)
                       ELSE table)

(***************************************************************************)
(* What a handler returns: the query as the handler left it, and the       *)
(* exception it raised, if any.                                            *)
(***************************************************************************)
Returns(q) == [q |-> q, exc |-> NoException]

Raises(q, e) == [q |-> q, exc |-> e]

\* self.result[key] = value
Put(result, key, value) ==
    [k \in DOMAIN result \cup {key} |-> IF k = key THEN value ELSE result[k]]

(***************************************************************************)
(* The type parsers of types.py.  A string is the sequence of its          *)
(* characters.  A parser gives the typed value, or Ellipsis; a typed value *)
(* is kept as its type and its text.                                       *)
(***************************************************************************)
Digits == {"0", "1", "2", "3", "4", "5", "6", "7", "8", "9"}

IsDigits(s) == s # <<>> /\ \A n \in 1..Len(s) : s[n] \in Digits

\* The string after its sign, if it has one.
Unsigned(s) == IF s # <<>> /\ s[1] \in {"+", "-"} THEN Tail(s) ELSE s

\* The digits of a number without its leading zeros.
RECURSIVE StripZeros(_)
StripZeros(s) == IF Len(s) > 1 /\ s[1] = "0" THEN StripZeros(Tail(s)) ELSE s

DigitValue(ch) ==
    CASE ch = "0" -> 0 [] ch = "1" -> 1 [] ch = "2" -> 2 [] ch = "3" -> 3 [] ch = "4" -> 4
      [] ch = "5" -> 5 [] ch = "6" -> 6 [] ch = "7" -> 7 [] ch = "8" -> 8 [] ch = "9" -> 9

\* The number a string of digits denotes.
RECURSIVE Number(_)
Number(s) ==
    IF s = <<>> THEN 0 ELSE 10 * Number(SubSeq(s, 1, Len(s) - 1)) + DigitValue(s[Len(s)])

Ellipsis == [type |-> "Ellipsis", value |-> <<>>]

Typed(type, value) == [type |-> type, value |-> value]

none_parser(value) == IF value = <<>> THEN Typed("NoneType", <<>>) ELSE Ellipsis

\* int(value) accepts a sign and digits (and blanks or underscores, which
\* no value of the model holds).  The text kept is the decimal form of the
\* integer.
int_parser(value) ==
    LET digits == StripZeros(Unsigned(value))
    IN  IF ~IsDigits(Unsigned(value)) THEN Ellipsis
        ELSE IF value[1] = "-" /\ digits # <<"0">> THEN Typed("int", <<"-">> \o digits)
        ELSE Typed("int", digits)

\* float(value) accepts a sign, then digits with at most one point and at
\* least one digit (and exponents, inf and nan, which need letters no value
\* of the model holds).
float_parser(value) ==
    LET u == Unsigned(value)
        decimal(n) ==
            /\ u[n] = "."
            /\ IsDigits(SubSeq(u, 1, n - 1) \o SubSeq(u, n + 1, Len(u)))
    IN  IF IsDigits(u) \/ \E n \in 1..Len(u) : decimal(n)
        THEN Typed("float", value)
        ELSE Ellipsis

IsLeap(year) == year % 4 = 0 /\ (year % 100 # 0 \/ year % 400 = 0)

DaysIn(year, month) ==
    IF month = 2 THEN (IF IsLeap(year) THEN 29 ELSE 28)
    ELSE IF month \in {4, 6, 9, 11} THEN 30 ELSE 31

\* isoparse(value) on the calendar dates YYYY, YYYY-MM and YYYY-MM-DD.  The
\* other forms it reads (basic, week and ordinal dates, times of day) are
\* at least seven characters long and hold letters, colons or more digits
\* than a value of the model has.
datetime_parser(value) ==
    LET year  == Number(SubSeq(value, 1, 4))
        month == Number(SubSeq(value, 6, 7))
        day   == Number(SubSeq(value, 9, 10))
        yyyy  == Len(value) >= 4 /\ IsDigits(SubSeq(value, 1, 4)) /\ year >= 1
        mm    == /\ Len(value) >= 7 /\ value[5] = "-" /\ IsDigits(SubSeq(value, 6, 7))
                 /\ month \in 1..12
        dd    == /\ Len(value) = 10 /\ value[8] = "-" /\ IsDigits(SubSeq(value, 9, 10))
                 /\ day \in 1..DaysIn(year, month)
    IN  IF \/ Len(value) = 4 /\ yyyy
           \/ Len(value) = 7 /\ yyyy /\ mm
           \/ Len(value) = 10 /\ yyyy /\ mm /\ dd
        THEN Typed("datetime", value)
        ELSE Ellipsis

(***************************************************************************)
(* Filter (filter.py).                                                     *)
(***************************************************************************)
\* The parsers with the float parser tried before the integer parser.
TYPE_PARSERS_float_first ==
    <<"none_parser", "float_parser", "int_parser", "datetime_parser">>

DEFAULT_TYPE_PARSERS == <<"none_parser", "int_parser", "float_parser", "datetime_parser">>

\* parser(value)
parser(name, value) ==
    CASE name = "none_parser"     -> none_parser(value)
      [] name = "int_parser"      -> int_parser(value)
      [] name = "float_parser"    -> float_parser(value)
      [] name = "datetime_parser" -> datetime_parser(value)

\* for parser in TYPE_PARSERS: ... else: self.value = value
RECURSIVE parse(_, _)
parse(parsers, value) ==
    IF parsers = <<>> THEN Typed("str", value)
    ELSE IF parser(Head(parsers), value) # Ellipsis THEN parser(Head(parsers), value)
    ELSE parse(Tail(parsers), value)

Types == {"int", "float", "str", "datetime", "NoneType"}

DEFAULT_FILTERS_TABLE_keys ==
    ({"", "!"} \X {"int", "str", "datetime", "NoneType"})
    \cup ({">", "[", "<", "]"} \X {"int", "float", "str", "datetime"})
    \cup ({"^", "$", "*", "~"} \X {"str"})

\* An entry for str is the pair (lookup when not case-sensitive, lookup
\* when case-sensitive).
DEFAULT_FILTERS_TABLE ==
    [k \in DEFAULT_FILTERS_TABLE_keys |->
        CASE k[1] \in {"", "!"} -> IF k[2] = "str" THEN <<"iexact", "exact">> ELSE "exact"
          [] k[1] = ">" -> IF k[2] = "str" THEN <<"gt", "gt">> ELSE "gt"
          [] k[1] = "[" -> IF k[2] = "str" THEN <<"gte", "gte">> ELSE "gte"
          [] k[1] = "<" -> IF k[2] = "str" THEN <<"lt", "lt">> ELSE "lt"
          [] k[1] = "]" -> IF k[2] = "str" THEN <<"lte", "lte">> ELSE "lte"
          [] k[1] = "^" -> <<"istartswith", "startswith">>
          [] k[1] = "$" -> <<"iendswith", "endswith">>
          [] k[1] \in {"*", "~"} -> <<"icontains", "contains">>]

FILTERS_TABLE == DEFAULT_FILTERS_TABLE

\* [i[0] for i in FILTERS_TABLE.keys()]; the empty modifier of the table is
\* never the first character of a value.
SEARCH_MODIFIERS == {k[1] : k \in DOMAIN FILTERS_TABLE}

\* No modifier negates.
EXCLUDE_SEARCH_MODIFIERS_none == {}

EXCLUDE_SEARCH_MODIFIERS == {"!", "~"}

\* The modifier taken to be every leading modifier character.
RECURSIVE Filter_modifier_greedy(_)
Filter_modifier_greedy(value) ==
    IF value # <<>> /\ value[1] \in SEARCH_MODIFIERS
    THEN [Filter_modifier_greedy(Tail(value)) EXCEPT !.modifier = value[1]]
    ELSE [modifier |-> "", value |-> value]

\* Extract optional modifier from value, if any.
Filter_modifier(value) ==
    IF value # <<>> /\ value[1] \in SEARCH_MODIFIERS
    THEN [modifier |-> value[1], value |-> Tail(value)]
    ELSE [modifier |-> "", value |-> value]

NoFilter ==
    [exc |-> NoException, field |-> <<>>, modifier |-> "", value |-> <<>>, type |-> "",
     case |-> FALSE]

NoQ == [exc |-> NoException, q |-> Op("filter", "")]

\* Filter.__init__: the field is resolved first, then the value is read.
Filter(field, value, case, model, c, arbitrary_fields) ==
    LET made(r, m, v) ==
            [exc |-> r.exc, field |-> Segments(field),
             modifier |-> IF r.ok THEN m ELSE "",
             value |-> IF r.ok THEN v.value ELSE <<>>,
             type |-> IF r.ok THEN v.type ELSE "",
             case |-> case]
        read(r, split) == made(r, split.modifier, parse(DEFAULT_TYPE_PARSERS, split.value))
    IN  read(check_field(Segments(field), model, c, arbitrary_fields,
                         DGEQ_MAX_NESTED_FIELD_DEPTH),
             Filter_modifier(value))

\* Q(**{field + "__" + lookup: value}), or its negation.
Q(f, lookup) ==
    [Op("filter", "") EXCEPT !.path = f.field, !.lookup = lookup, !.value = f.value,
                             !.type = f.type,
                             !.negated = (f.modifier \in EXCLUDE_SEARCH_MODIFIERS)]

\* Filter.get with the key of the table never missing: a pair the table
\* lacks is compiled as an equality.
Filter_get_total(f) ==
    [exc |-> NoException,
     q |-> Q(f, IF <<f.modifier, f.type>> \in DOMAIN FILTERS_TABLE
                THEN (IF f.type = "str"
                      THEN FILTERS_TABLE[<<f.modifier, f.type>>][IF f.case THEN 2 ELSE 1]
                      ELSE FILTERS_TABLE[<<f.modifier, f.type>>])
                ELSE "exact")]

Filter_get(f) ==
    IF <<f.modifier, f.type>> \notin DOMAIN FILTERS_TABLE
    THEN [exc |-> SearchModifierError(f.modifier, f.value, f.type), q |-> Op("filter", "")]
    ELSE [exc |-> NoException,
          q |-> Q(f, IF f.type = "str"
                     THEN FILTERS_TABLE[<<f.modifier, f.type>>][IF f.case THEN 2 ELSE 1]
                     ELSE FILTERS_TABLE[<<f.modifier, f.type>>])]

\* Filter.apply, for the filters of one list in order: queryset.filter(f.get())
RECURSIVE apply_filters(_, _)
apply_filters(queryset, filters) ==
    IF filters = <<>> THEN [queryset |-> queryset, exc |-> NoException]
    ELSE LET got(g) ==
                 IF g.exc.kind # "none" THEN [queryset |-> queryset, exc |-> g.exc]
                 ELSE IF queryset.sliced THEN [queryset |-> queryset, exc |-> CannotFilter]
                 ELSE apply_filters(Chained(queryset, g.q), Tail(filters))
         IN  got(Filter_get(Head(filters)))

\* str.split(sep)
RECURSIVE split(_, _)
split(s, sep) ==
    IF \A n \in 1..Len(s) : s[n] # sep THEN <<s>>
    ELSE LET at(n) == <<SubSeq(s, 1, n - 1)>> \o split(SubSeq(s, n + 1, Len(s)), sep)
         IN  at(CHOOSE n \in 1..Len(s) : s[n] = sep /\ \A m \in 1..(n - 1) : s[m] # sep)

\* split_list_values with only the first string of the list split.
split_list_values_first(lst, sep) == IF lst = <<>> THEN <<>> ELSE split(Head(lst), sep)

\* utils.split_list_values, which the handlers call as split_list_strings.
RECURSIVE split_list_values(_, _)
split_list_values(lst, sep) ==
    IF lst = <<>> THEN <<>>
    ELSE split(Head(lst), sep) \o split_list_values(Tail(lst), sep)

(***************************************************************************)
(* The handlers of commands.py.  q is the GenericQuery, query_dict_list    *)
(* the input it was built from.                                            *)
(***************************************************************************)
Case(q, query_dict_list) ==
    LET c == get(query_dict_list, "c:case", "1")
    IN  IF ~isdigit(c)
        THEN Raises(q, InvalidCommandError("c:case", "value must be either 0 or 1"))
        ELSE Returns([q EXCEPT !.case = (int(c) # 0)])

\* The smallest member of a non-empty set of positions.
First(positions) == CHOOSE n \in positions : \A m \in positions : n <= m

\* The positions of a list of outcomes that hold an exception.
Failed(outcomes) == {n \in 1..Len(outcomes) : outcomes[n].exc.kind # "none"}

Filtering(q, field, lst) ==
    LET applied(a) == [q |-> [q EXCEPT !.queryset = a.queryset], exc |-> a.exc]
        built(filters) ==
            IF Failed(filters) # {} THEN Raises(q, filters[First(Failed(filters))].exc)
            ELSE applied(apply_filters(q.queryset, filters))
        listed(values) ==
            built([n \in 1..Len(values) |->
                     Filter(field, values[n], q.case, q.model, q.censor, q.arbitrary_fields)])
    IN  listed(split_list_values([n \in 1..Len(lst) |-> lst[n].chars], ","))

Sort(q, query_dict_list) ==
    LET fields == getlist(query_dict_list, "c:sort")
        checked(checks) ==
            IF Failed(checks) # {} THEN Raises(q, checks[First(Failed(checks))].exc)
            ELSE IF fields = <<>> THEN Returns(q)
            ELSE IF q.queryset.sliced THEN Raises(q, CannotReorder)
            ELSE Returns([q EXCEPT !.queryset =
                            Chained(@, [Op("order_by", "") EXCEPT
                                          !.path = [n \in 1..Len(fields) |-> fields[n].raw]])])
    IN  checked([n \in 1..Len(fields) |->
                   check_field(Segments(StripHyphen(fields[n].raw)), q.model, q.censor,
                               q.arbitrary_fields, DGEQ_MAX_NESTED_FIELD_DEPTH)])

Subset(q, query_dict_list) ==
    LET start == get(query_dict_list, "c:start", "0")
        limit == get(query_dict_list, "c:limit", "1")
    IN  IF ~isdigit(start)
        THEN Raises(q, InvalidCommandError("c:start", "value must be a non-negative integers"))
        ELSE IF ~isdigit(limit)
        THEN Raises(q, InvalidCommandError("c:start", "value must be a non-negative integers"))
        ELSE IF int_raises(start) \/ int_raises(limit) THEN Raises(q, ValueError)
        ELSE Returns([q EXCEPT !.queryset = QuerySet_slice(@, int(start), int(limit))])

(***************************************************************************)
(* Annotation and Aggregation.                                             *)
(***************************************************************************)
AGGREGATION_FUNCTION == {"max", "min", "avg", "sum", "stddev", "var", "count"}

Letters ==
    {"a", "b", "c", "d", "e", "f", "g", "h", "i", "j", "k", "l", "m", "n", "o", "p", "q",
     "r", "s", "t", "u", "v", "w", "x", "y", "z", "A", "B", "C", "D", "E", "F", "G", "H",
     "I", "J", "K", "L", "M", "N", "O", "P", "Q", "R", "S", "T", "U", "V", "W", "X", "Y",
     "Z"}

\* The characters of a name given as `to`.
NameChars(name) ==
    CASE name = "rc"         -> <<"r", "c">>
      [] name = "rc0"        -> <<"r", "c", "0">>
      [] name = "pmax"       -> <<"p", "m", "a", "x">>
      [] name = "name"       -> <<"n", "a", "m", "e">>
      [] name = "population" -> <<"p", "o", "p", "u", "l", "a", "t", "i", "o", "n">>
      [] name = "1x"         -> <<"1", "x">>
      [] OTHER               -> <<>>

\* str.isidentifier(), on the characters a name of the model can hold.
isidentifier(name) ==
    LET chars == NameChars(name)
    IN  /\ chars # <<>>
        /\ chars[1] \in Letters \cup {"_"}
        /\ \A n \in 1..Len(chars) : chars[n] \in Letters \cup Digits \cup {"_"}

Annotation(field, to, filters, early) ==
    [field |-> field, to |-> to, filters |-> filters, early |-> early]

\* The steps common to Annotation.from_query_value and
\* Aggregation.from_query_value: the field resolves, the function is known,
\* and `to` is an identifier that does not resolve.
check_field_and_to(command, value, model, c, arbitrary_fields) ==
    LET named(rt) ==
            IF rt.ok
            THEN InvalidCommandError(command, "'to' value is a already used by a field")
            ELSE IF rt.exc.kind # "UnknownFieldError" THEN rt.exc
            ELSE NoException
        checked(r) ==
            IF ~r.ok THEN r.exc
            ELSE IF value.func = ""
            THEN InvalidCommandError(command, "'func' argument is missing")
            ELSE IF value.func \notin AGGREGATION_FUNCTION
            THEN InvalidCommandError(command, "Unknown function")
            ELSE IF value.to = ""
            THEN InvalidCommandError(command, "'to' argument is missing")
            ELSE IF ~isidentifier(value.to)
            THEN InvalidCommandError(command, "'to' value isn't a valid identifier")
            ELSE named(check_field(<<value.to>>, model, c, arbitrary_fields,
                                   DGEQ_MAX_NESTED_FIELD_DEPTH))
    IN  IF value.field = <<>>
        THEN InvalidCommandError(command, "'field' argument is missing")
        ELSE checked(check_field(value.field, model, c, arbitrary_fields,
                                 DGEQ_MAX_NESTED_FIELD_DEPTH))

\* The model the filters of an annotation are resolved from, taken to be
\* the model the annotated relation leads to.
filters_model_related(model, field) ==
    IF Len(field) = 1 /\ is_relation(model, field[1])
    THEN RelatedModel(model, field[1])
    ELSE model

\* The model the filters of an annotation are resolved from: the model of
\* the query.
filters_model(model, field) == model

\* Filter(k, v, case, model, hidden_fields) for the filters of a value, a
\* filter without an equal sign raising InvalidCommandError.
Annotation_filters(value, model, case, c) ==
    [n \in 1..Len(value.filters) |->
        IF Len(value.filters[n]) < 2
        THEN [NoFilter EXCEPT !.exc = InvalidCommandError("c:annotate",
                                          "Filters must contains an equal '='")]
        ELSE Filter(value.filters[n][1], value.filters[n][2], case,
                    filters_model(model, value.field), c, {})]

Annotation_from_query_value(value, model, case, c, arbitrary_fields) ==
    LET failure(e) == [exc |-> e, a |-> Annotation(<<>>, "", <<>>, FALSE)]
        filtered(filters) ==
            IF Failed(filters) # {} THEN failure(filters[First(Failed(filters))].exc)
            ELSE IF value.early \notin {"0", "1"}
            THEN failure(InvalidCommandError("c:annotate",
                                             "'early' argument must be '0' or '1'"))
            ELSE [exc |-> NoException,
                  a |-> Annotation(value.field, value.to, filters, int(value.early) # 0)]
        checked(e) ==
            IF e.kind # "none" THEN failure(e)
            ELSE filtered(Annotation_filters(value, model, case, c))
    IN  checked(check_field_and_to("c:annotate", value, model, c, arbitrary_fields))

\* reduce(lambda i, j: i & j, (f.get() for f in self.filters))
Annotation_apply_filter(a) == [n \in 1..Len(a.filters) |-> Filter_get(a.filters[n])]

\* queryset.annotate(to=func(field, filter=...))
Annotation_apply(a, queryset, model) ==
    LET applied(gets) ==
            IF Failed(gets) # {}
            THEN [queryset |-> queryset, exc |-> gets[First(Failed(gets))].exc]
            ELSE IF a.to \in FieldNames(model)
            THEN [queryset |-> queryset, exc |-> AnnotationConflicts]
            ELSE [queryset |-> Chained(queryset,
                                  [Op("annotate", a.to) EXCEPT
                                      !.path = a.field, !.early = a.early,
                                      !.filter = [n \in 1..Len(gets) |-> gets[n].q]]),
                  exc |-> NoException]
    IN  applied(Annotation_apply_filter(a))

\* The loop of ComputeAnnotation.__call__ over the remaining values.
RECURSIVE ComputeAnnotation_loop(_, _)
ComputeAnnotation_loop(q, values) ==
    IF values = <<>> THEN Returns(q)
    ELSE LET made(r) ==
                 IF r.exc.kind # "none" THEN Raises(q, r.exc)
                 ELSE ComputeAnnotation_loop(
                          [q EXCEPT !.annotations = Append(@, r.a),
                                    !.arbitrary_fields = @ \cup {r.a.to}],
                          Tail(values))
         IN  made(Annotation_from_query_value(Head(values), q.model, q.case, q.censor,
                                              q.arbitrary_fields))

ComputeAnnotation(q, query_dict_list) ==
    ComputeAnnotation_loop([q EXCEPT !.annotations = <<>>],
                           getlist(query_dict_list, "c:annotate"))

\* The loop of Annotate.__call__ over the remaining annotations.
RECURSIVE Annotate_loop(_, _, _)
Annotate_loop(q, annotations, early) ==
    IF annotations = <<>> THEN Returns(q)
    ELSE IF Head(annotations).early # early
    THEN Annotate_loop(q, Tail(annotations), early)
    ELSE LET applied(r) ==
                 IF r.exc.kind # "none" THEN Raises(q, r.exc)
                 ELSE Annotate_loop([q EXCEPT !.queryset = r.queryset],
                                    Tail(annotations), early)
         IN  applied(Annotation_apply(Head(annotations), q.queryset, q.model))

\* The pipeline's Annotate entry: the annotations of the key are computed,
\* then those whose flag is the entry's are applied.
Annotate(q, query_dict_list, early) ==
    LET computed(r) ==
            IF r.exc.kind # "none" THEN r
            ELSE Annotate_loop(r.q, r.q.annotations, early)
    IN  computed(ComputeAnnotation(q, query_dict_list))

Aggregate(q, query_dict_list) ==
    LET values == getlist(query_dict_list, "c:aggregate")
        tos    == {values[n].to : n \in 1..Len(values)}
        checked(aggregations) ==
            IF Failed(aggregations) # {}
            THEN Raises(q, aggregations[First(Failed(aggregations))].exc)
            ELSE Returns([q EXCEPT !.result =
                            [k \in DOMAIN @ \cup tos |->
                               IF k \in tos THEN "aggregate" ELSE @[k]]])
    IN  checked([n \in 1..Len(values) |->
                   [exc |-> check_field_and_to("c:aggregate", values[n], q.model, q.censor,
                                               q.arbitrary_fields)]])

(***************************************************************************)
(* Joins.  The joins of a query are a tree, held as a function from the    *)
(* path of a node (the relations followed from the root) to the node.      *)
(***************************************************************************)
Target(model, name) == [model |-> model, name |-> name]

\* JoinMixin.__init__: self.joins = dict()
NoJoins == [p \in {} |-> <<>>]

\* utils.get_field of the relation named by a path, from the model of the
\* query.
RECURSIVE get_field(_, _)
get_field(base_name, model) ==
    IF Len(base_name) = 1 THEN Target(model, base_name[1])
    ELSE get_field(Tail(base_name), RelatedModel(model, base_name[1]))

Range(seq) == {seq[n] : n \in 1..Len(seq)}

\* The names a join removes from the rows of a model: those the censor of
\* the query marks private for it.
hidden_fields_get(c, model) == {f \in FieldNames(model) : is_private(c, model, f)}

\* A construction that removes the hide names from the show names too.
JoinQuery_show_less_hide(target, field, show, hide, hidden_fields) ==
    LET target_model == RelatedModel(target.model, target.name)
        fields == ((IF show # <<>> THEN Range(show) ELSE FieldNames(target_model))
                      \ Range(hide)) \ hidden_fields
    IN  IF \E f \in fields : FieldDoesNotExist(target_model, f)
        THEN [exc |-> FieldDoesNotExistException, node |-> <<>>]
        ELSE [exc |-> NoException,
              node |-> [model |-> target_model,
                        field |-> field,
                        fields |-> {f \in fields : ~is_relation(target_model, f)},
                        unique_foreign_field |-> {f \in fields : is_one(target_model, f)},
                        many_foreign_fields |-> {f \in fields : is_many(target_model, f)},
                        many |-> is_many(target.model, target.name),
                        start |-> 0, limit |-> 0, sort |-> <<>>, filters |-> <<>>]]

JoinQuery(target, field, show, hide, hidden_fields) ==
    LET target_model == RelatedModel(target.model, target.name)
        fields == (IF show # <<>> THEN Range(show)
                   ELSE FieldNames(target_model) \ Range(hide)) \ hidden_fields
    IN  IF \E f \in fields : FieldDoesNotExist(target_model, f)
        THEN [exc |-> FieldDoesNotExistException, node |-> <<>>]
        ELSE [exc |-> NoException,
              node |-> [model |-> target_model,
                        field |-> field,
                        fields |-> {f \in fields : ~is_relation(target_model, f)},
                        unique_foreign_field |-> {f \in fields : is_one(target_model, f)},
                        many_foreign_fields |-> {f \in fields : is_many(target_model, f)},
                        many |-> is_many(target.model, target.name),
                        start |-> 0, limit |-> 0, sort |-> <<>>, filters |-> <<>>]]

add_field(node, field_name) ==
    IF FieldDoesNotExist(node.model, field_name)
    THEN [exc |-> FieldDoesNotExistException, node |-> node]
    ELSE [exc |-> NoException,
          node |-> IF is_one(node.model, field_name)
                   THEN [node EXCEPT !.unique_foreign_field = @ \cup {field_name}]
                   ELSE [node EXCEPT !.many_foreign_fields = @ \cup {field_name}]]

IsPrefix(p, path) == Len(p) <= Len(path) /\ SubSeq(path, 1, Len(p)) = p

Assign(joins, path, node) ==
    [p \in DOMAIN joins \cup {path} |-> IF p = path THEN node ELSE joins[p]]

\* self.joins[field] = join: the node replaces the one at the path, with
\* the joins that one held.
Replace(joins, path, node) ==
    Assign([p \in {p \in DOMAIN joins : ~IsPrefix(path, p)} |-> joins[p]], path, node)

\* An add_join that makes the intermediary join anew at every call.
RECURSIVE add_join_new_intermediary(_, _, _, _, _)
add_join_new_intermediary(joins, field, join, model, field_start) ==
    IF Len(field) > 1
    THEN LET base_name  == Append(field_start, Head(field))
             field_name == field[2]
             added(made) ==
                 IF made.exc.kind # "none" THEN [exc |-> made.exc, joins |-> joins]
                 ELSE add_join_new_intermediary(Assign(joins, base_name, made.node),
                                                Tail(field), join, model, base_name)
         IN  added(JoinQuery(get_field(base_name, model), base_name, <<field_name>>, <<>>, {}))
    ELSE [exc |-> NoException, joins |-> Replace(joins, Append(field_start, Head(field)), join)]

RECURSIVE add_join(_, _, _, _, _)
add_join(joins, field, join, model, field_start) ==
    IF Len(field) > 1
    THEN LET base_name  == Append(field_start, Head(field))
             field_name == field[2]
             added(made) ==
                 IF made.exc.kind # "none" THEN [exc |-> made.exc, joins |-> joins]
                 ELSE add_join(Assign(joins, base_name, made.node), Tail(field), join,
                               model, base_name)
         IN  added(IF base_name \notin DOMAIN joins
                   THEN JoinQuery(get_field(base_name, model), base_name,
                                  <<field_name>>, <<>>, {})
                   ELSE add_field(joins[base_name], field_name))
    ELSE [exc |-> NoException, joins |-> Replace(joins, Append(field_start, Head(field)), join)]

\* The first exception of check_field over the names of a list, if any.
check_fields(names, model, c, arbitrary_fields) ==
    LET checked(checks) ==
            IF Failed(checks) # {} THEN checks[First(Failed(checks))].exc ELSE NoException
    IN  checked([n \in 1..Len(names) |->
                   check_field(Segments(names[n]), model, c, arbitrary_fields,
                               DGEQ_MAX_NESTED_FIELD_DEPTH)])

\* Filter(k, v, case, target_model, hidden_fields) for the filters of a join,
\* a filter without an equal sign raising InvalidCommandError.
Join_filters(value, target_model, case, c) ==
    [n \in 1..Len(value.filters) |->
        IF Len(value.filters[n]) < 2
        THEN [NoFilter EXCEPT !.exc = InvalidCommandError("c:join",
                                          "Filters must contains an equal '='")]
        ELSE Filter(value.filters[n][1], value.filters[n][2], case, target_model, c, {})]

JoinQuery_from_query_value(value, model, case, c, arbitrary_fields) ==
    LET failure(e) == [exc |-> e, node |-> <<>>]
        declared(made, filters) ==
            IF made.exc.kind # "none" THEN made
            ELSE [made EXCEPT !.node.start = int(value.start),
                              !.node.limit = int(value.limit),
                              !.node.sort = value.sort,
                              !.node.filters = filters]
        sorted(target, target_model, es, filters) ==
            IF es.kind # "none" THEN failure(es)
            ELSE IF Failed(filters) # {} THEN failure(filters[First(Failed(filters))].exc)
            ELSE declared(JoinQuery(target, value.field, value.show, value.hide,
                                    hidden_fields_get(c, target_model)),
                          filters)
        listed(target, target_model, es, eh) ==
            IF es.kind # "none" THEN failure(es)
            ELSE IF eh.kind # "none" THEN failure(eh)
            ELSE IF ~isdigit(value.start) \/ ~isdigit(value.limit)
            THEN failure(InvalidCommandError("c:join",
                                             "'start' value must be a non-negative integers"))
            ELSE IF int_raises(value.start) \/ int_raises(value.limit)
            THEN failure(ValueError)
            ELSE sorted(target, target_model,
                        check_fields([n \in 1..Len(value.sort) |-> StripHyphen(value.sort[n])],
                                     target_model, c, arbitrary_fields),
                        Join_filters(value, target_model, case, c))
        related(target, target_model) ==
            listed(target, target_model,
                   check_fields(value.show, target_model, c, arbitrary_fields),
                   check_fields(value.hide, target_model, c, arbitrary_fields))
        checked(r) ==
            IF ~r.ok THEN failure(r.exc)
            ELSE IF FieldDoesNotExist(r.model, r.field)
            THEN failure(FieldDoesNotExistException)
            ELSE IF ~is_relation(r.model, r.field)
            THEN failure(NotARelatedFieldError(r.model, value.field, c))
            ELSE related(Target(r.model, r.field), RelatedModel(r.model, r.field))
    IN  checked(check_field(value.field, model, c, arbitrary_fields,
                            DGEQ_MAX_NESTED_FIELD_DEPTH))

\* The joins of the values of a list, keyed by their field: a later value
\* replaces an earlier one of the same field.
RECURSIVE query_joins(_, _, _)
query_joins(q, values, made) ==
    IF values = <<>> THEN [exc |-> NoException, joins |-> made]
    ELSE LET parsed(j) ==
                 IF j.exc.kind # "none" THEN [exc |-> j.exc, joins |-> made]
                 ELSE query_joins(q, Tail(values), Assign(made, j.node.field, j.node))
         IN  parsed(JoinQuery_from_query_value(Head(values), q.model, q.case, q.censor,
                                               q.arbitrary_fields))

\* sorted(query_joins.items(), key=count("__")), then add_join of each.
RECURSIVE add_joins(_, _, _, _)
add_joins(joins, model, made, depth) ==
    LET level == {p \in DOMAIN made : Len(p) = depth}
    IN  IF DOMAIN made = {} THEN [exc |-> NoException, joins |-> joins]
        ELSE IF level = {}
        THEN add_joins(joins, model, made, depth + 1)
        ELSE LET added(p, r) ==
                     IF r.exc.kind # "none" THEN r
                     ELSE add_joins(r.joins, model,
                                    [x \in DOMAIN made \ {p} |-> made[x]], depth)
                 next(p) == added(p, add_join(joins, p, made[p], model, <<>>))
             IN  next(CHOOSE p \in level : TRUE)

Join(q, query_dict_list) ==
    LET added(r) ==
            IF r.exc.kind # "none" THEN Raises(q, r.exc)
            ELSE Returns([q EXCEPT !.joins = r.joins,
                                   !.queryset = Chained(@, [Op("prefetch_related", "") EXCEPT
                                                              !.nodes = DOMAIN r.joins])])
        parsed(m) ==
            IF m.exc.kind # "none" THEN Raises(q, m.exc)
            ELSE added(add_joins(q.joins, q.model, m.joins, 1))
    IN  parsed(query_joins(q, getlist(query_dict_list, "c:join"), NoJoins))

(***************************************************************************)
(* Rows.  The rows of a result are described by the keys they hold: a path *)
(* is the key of a row, after the keys of the rows it is nested in.        *)
(***************************************************************************)
\* JoinQuery.fetch: the keys of the rows of the node at a path, and of the
\* rows nested in them.
RECURSIVE fetch(_, _)
fetch(joins, path) ==
    LET node   == joins[path]
        nested == {f \in node.unique_foreign_field \cup node.many_foreign_fields :
                     Append(path, f) \in DOMAIN joins}
    IN  {Append(path, f) : f \in node.fields \cup node.unique_foreign_field
                                     \cup node.many_foreign_fields}
        \cup UNION {fetch(joins, Append(path, f)) : f \in nested}

\* utils.split_related_field fails on a name that is neither arbitrary nor
\* a field of the model.
split_related_field_raises(model, fields, arbitrary_fields) ==
    \E f \in fields \ arbitrary_fields : FieldDoesNotExist(model, f)

\* utils.serialize_row
serialize_row(model, fields, arbitrary_fields, joins) ==
    LET related == {f \in fields \ arbitrary_fields : is_relation(model, f)}
    IN  {<<f>> : f \in fields}
        \cup UNION {fetch(joins, <<f>>) : f \in {f \in related : <<f>> \in DOMAIN joins}}

\* The fields of the query as they are before the censor.
_evaluate_fields_uncensored(q) == q.fields \cup q.arbitrary_fields

\* The fields GenericQuery._evaluate serializes.
_evaluate_fields(q) == censor(q.censor, q.model, q.fields \cup q.arbitrary_fields)

_evaluate(q) ==
    LET serialized(fields) ==
            IF split_related_field_raises(q.model, fields, q.arbitrary_fields)
            THEN [exc |-> FieldDoesNotExistException, rows |-> {}]
            ELSE [exc |-> NoException,
                  rows |-> serialize_row(q.model, fields, q.arbitrary_fields, q.joins)]
    IN  IF censor_raises(q.censor, q.model, q.fields \cup q.arbitrary_fields)
        THEN [exc |-> UnknownFieldError(q.model,
                          CHOOSE f \in q.fields \cup q.arbitrary_fields :
                              is_private_raises(q.censor, q.model, f),
                          q.censor),
              rows |-> {}]
        ELSE serialized(_evaluate_fields(q))

Show(q, query_dict_list) ==
    LET show == [n \in 1..Len(getlist(query_dict_list, "c:show")) |->
                   getlist(query_dict_list, "c:show")[n].raw]
        hide == [n \in 1..Len(getlist(query_dict_list, "c:hide")) |->
                   getlist(query_dict_list, "c:hide")[n].raw]
        shown(e) ==
            IF e.kind # "none" THEN Raises(q, e)
            ELSE Returns([q EXCEPT !.fields = Range(show)])
        hidden(e) ==
            IF e.kind # "none" THEN Raises(q, e)
            ELSE Returns([q EXCEPT !.fields = (@ \cup q.arbitrary_fields) \ Range(hide)])
    IN  IF show # <<>>
        THEN shown(check_fields(show, q.model, q.censor, q.arbitrary_fields))
        ELSE hidden(check_fields(hide, q.model, q.censor, q.arbitrary_fields))

\* The handler of c:evaluate builds rows of its own: the fields of the
\* query less the hidden ones, and the joins.
Evaluate(q, query_dict_list) ==
    LET b == get(query_dict_list, "c:evaluate", "1")
        serialized(fields) ==
            IF split_related_field_raises(q.model, fields, q.arbitrary_fields)
            THEN Raises(q, FieldDoesNotExistException)
            ELSE Returns([q EXCEPT !.result =
                            Put(@, "rows", serialize_row(q.model, fields, q.arbitrary_fields,
                                                         q.joins))])
    IN  IF ~isdigit(b)
        THEN Raises(q, InvalidCommandError("c:evaluate", "value must be either 0 or 1"))
        ELSE IF int(b) = 0 THEN Returns(q)
        ELSE serialized((q.fields \cup q.arbitrary_fields)
                            \ hidden_fields_get(q.censor, q.model))

Count(q, query_dict_list) ==
    LET c == get(query_dict_list, "c:count", "0")
    IN  IF ~isdigit(c)
        THEN Raises(q, InvalidCommandError("c:count", "value must be either 0 or 1"))
        ELSE IF int(c) # 0 THEN Returns([q EXCEPT !.result = Put(@, "count", "count")])
        ELSE Returns(q)

Time(q, query_dict_list) ==
    LET t == get(query_dict_list, "c:time", "0")
    IN  IF ~isdigit(t)
        THEN Raises(q, InvalidCommandError("c:case", "value must be either 0 or 1"))
        ELSE IF int(t) # 0 THEN Returns([q EXCEPT !.result = Put(@, "time", "time")])
        ELSE Returns(q)

(***************************************************************************)
(* The pipeline.  commands.Distinct, listed at dgeq.py:26, has no          *)
(* definition in commands.py and no key is addressed to it; the list below *)
(* holds the other entries in their declared order.                        *)
(***************************************************************************)
DGEQ_PRE_COMMANDS ==
    <<"Case", "Annotate", "Filtering", "Sort", "Subset", "Join", "Show", "Aggregate",
      "Evaluate">>

DGEQ_POST_COMMANDS == <<"Count", "Time">>

StartsWith(chars, prefix) ==
    Len(chars) >= Len(prefix) /\ SubSeq(chars, 1, Len(prefix)) = prefix

\* re.match(command.regex, field)
re_match(command, key) ==
    LET chars == KeyChars(key)
    IN  CASE command = "Case"      -> chars = <<"c", ":", "c", "a", "s", "e">>
          [] command = "Annotate"  ->
                chars = <<"c", ":", "a", "n", "n", "o", "t", "a", "t", "e">>
          [] command = "Filtering" -> chars # <<>> /\ chars[1] # "c"
          [] command = "Sort"      -> chars = <<"c", ":", "s", "o", "r", "t">>
          [] command = "Subset"    -> \/ chars = <<"c", ":", "s", "t", "a", "r", "t">>
                                      \/ chars = <<"c", ":", "l", "i", "m", "i", "t">>
          [] command = "Join"      -> chars = <<"c", ":", "j", "o", "i", "n">>
          [] command = "Show"      -> \/ StartsWith(chars, <<"c", ":", "s", "h", "o", "w">>)
                                      \/ chars = <<"h", "i", "d", "e">>
          [] command = "Aggregate" ->
                chars = <<"c", ":", "a", "g", "g", "r", "e", "g", "a", "t", "e">>
          [] command = "Evaluate"  ->
                chars = <<"c", ":", "e", "v", "a", "l", "u", "a", "t", "e">>
          [] command = "Count"     -> chars = <<"c", ":", "c", "o", "u", "n", "t">>
          [] command = "Time"      -> StartsWith(chars, <<"c", ":", "t", "i", "m", "e">>)

(***************************************************************************)
(* The state of one evaluation, and of one call of check_field.            *)
(***************************************************************************)
VARIABLES
    query,            \* the GenericQuery
    query_dict_list,  \* its input: the keys in the order received, with their values
    annotate_early,   \* the flag the pipeline's Annotate entry was built with
    pc,               \* where evaluate() is: "pre", "post", "raised" or "done"
    field_index,      \* the key whose commands are running
    command_index,    \* the last command run for that key
    exc,              \* the exception raised, if any
    trace,            \* the handlers invoked so far
    output,           \* what evaluate() returned
    cf,               \* a call of check_field: its arguments and its result
    fn                \* a function called on its own: its arguments and its results

vars ==
    <<query, query_dict_list, annotate_early, pc, field_index, command_index, exc, trace,
      output, cf, fn>>

\* The censors of the evaluations.
QueryCensors == {c \in CensorConfigs : c.dgeq_public = NoMapping /\ c.dgeq_private = NoMapping}

Items == UNION {{[key |-> k, lst |-> l] : l \in Values(k)} : k \in Keys}

Inputs ==
    UNION {{s \in [1..n -> Items] : \A a, b \in 1..n : s[a].key = s[b].key => a = b} :
             n \in 1..MaxKeys}

\* GenericQuery.__init__
GenericQuery(model, c) ==
    [model |-> model, censor |-> c, fields |-> FieldNames(model), arbitrary_fields |-> {},
     annotations |-> <<>>, joins |-> NoJoins, queryset |-> QuerySet_all,
     result |-> [k \in {"status"} |-> TRUE], case |-> TRUE, evaluated |-> TRUE,
     sliced |-> FALSE]

NoCall ==
    [censor |-> NoCensor, model |-> "Country", arbitrary_fields |-> {}, max_depth |-> 0,
     field |-> <<>>, called |-> FALSE, result |-> Raised(NoException)]

NoOutput == [k \in {} |-> TRUE]

NoFn == [name |-> "", pc |-> "done"]

Init ==
    /\ query \in {GenericQuery("Country", c) : c \in QueryCensors}
    /\ query_dict_list \in Inputs
    /\ annotate_early \in BOOLEAN
    /\ pc = "pre"
    /\ field_index = 1
    /\ command_index = 0
    /\ exc = NoException
    /\ trace = <<>>
    /\ output = NoOutput
    /\ cf = NoCall
    /\ fn = NoFn

Commands(stage) == IF stage = "pre" THEN DGEQ_PRE_COMMANDS ELSE DGEQ_POST_COMMANDS

\* No call is left to make in the stage.
NoCallLeft == <<0, 0>>

\* The commands after the b-th of the list that match the a-th key.
Matching(stage, a, b) ==
    {n \in (b + 1)..Len(Commands(stage)) :
        re_match(Commands(stage)[n], query_dict_list[a].key)}

\* The call evaluate() makes next in a stage: for each key in the order of
\* the input, the commands matching it in the order of the list.
RECURSIVE NextCallFrom(_, _, _)
NextCallFrom(stage, a, b) ==
    IF a > Len(query_dict_list) THEN NoCallLeft
    ELSE IF Matching(stage, a, b) # {} THEN <<a, First(Matching(stage, a, b))>>
    ELSE NextCallFrom(stage, a + 1, 0)

NextCall(stage) == NextCallFrom(stage, field_index, command_index)

Called(stage, command) ==
    LET is(call) == call # NoCallLeft /\ Commands(stage)[call[2]] = command
    IN  pc = stage /\ is(NextCall(stage))

\* What evaluate() does with the outcome r of the call it makes.
Outcome(call, command, r) ==
    /\ trace' = Append(trace, [command |-> command, key |-> query_dict_list[call[1]].key])
    /\ query' = r.q
    /\ exc' = r.exc
    /\ IF r.exc.kind = "none"
       THEN /\ pc' = pc
            /\ field_index' = call[1]
            /\ command_index' = call[2]
       ELSE /\ pc' = "raised"
            /\ UNCHANGED <<field_index, command_index>>
    /\ UNCHANGED <<query_dict_list, annotate_early, output, cf, fn>>

\* command(self, field, lst)
Call(stage, command, r) == Outcome(NextCall(stage), command, r)

CallCase == Called("pre", "Case") /\ Call("pre", "Case", Case(query, query_dict_list))

CallAnnotate ==
    /\ Called("pre", "Annotate")
    /\ Call("pre", "Annotate", Annotate(query, query_dict_list, annotate_early))

CallFiltering ==
    /\ Called("pre", "Filtering")
    /\ Call("pre", "Filtering",
            Filtering(query, query_dict_list[NextCall("pre")[1]].key,
                      query_dict_list[NextCall("pre")[1]].lst))

CallSort == Called("pre", "Sort") /\ Call("pre", "Sort", Sort(query, query_dict_list))

CallSubset == Called("pre", "Subset") /\ Call("pre", "Subset", Subset(query, query_dict_list))

CallJoin == Called("pre", "Join") /\ Call("pre", "Join", Join(query, query_dict_list))

CallShow == Called("pre", "Show") /\ Call("pre", "Show", Show(query, query_dict_list))

CallAggregate ==
    /\ Called("pre", "Aggregate")
    /\ Call("pre", "Aggregate", Aggregate(query, query_dict_list))

CallEvaluate ==
    /\ Called("pre", "Evaluate")
    /\ Call("pre", "Evaluate", Evaluate(query, query_dict_list))

\* self.result['rows'] = self._evaluate(), r being what _evaluate() gave.
Evaluated(r) ==
    IF r.exc.kind # "none"
    THEN /\ pc' = "raised"
         /\ exc' = r.exc
         /\ UNCHANGED query
    ELSE /\ pc' = "post"
         /\ query' = [query EXCEPT !.result = Put(@, "rows", r.rows)]
         /\ UNCHANGED exc

\* if self.evaluated: self.result['rows'] = self._evaluate()
EvaluateRows ==
    /\ pc = "pre"
    /\ NextCall("pre") = NoCallLeft
    /\ IF ~query.evaluated
       THEN /\ pc' = "post"
            /\ UNCHANGED <<query, exc>>
       ELSE Evaluated(_evaluate(query))
    /\ field_index' = 1
    /\ command_index' = 0
    /\ UNCHANGED <<query_dict_list, annotate_early, trace, output, cf, fn>>

CallCount == Called("post", "Count") /\ Call("post", "Count", Count(query, query_dict_list))

CallTime == Called("post", "Time") /\ Call("post", "Time", Time(query, query_dict_list))

\* result = self.result
Return ==
    /\ pc = "post"
    /\ NextCall("post") = NoCallLeft
    /\ output' = query.result
    /\ pc' = "done"
    /\ UNCHANGED <<query, query_dict_list, annotate_early, field_index, command_index, exc,
                   trace, cf, fn>>

\* The envelope of a DgeqError laid over what the query had accumulated.
DgeqErrorResult_over_result(e) ==
    [k \in DOMAIN query.result \cup {"status", "message", "code"} \cup details(e) |->
        CASE k = "status"  -> FALSE
          [] k = "message" -> e.str
          [] k = "code"    -> e.code
          [] k \in details(e) -> e[k]
          [] OTHER         -> query.result[k]]

\* The envelope of a DgeqError: its message, its code and its details.
DgeqErrorResult(e) ==
    [k \in {"status", "message", "code"} \cup details(e) |->
        CASE k = "status"  -> FALSE
          [] k = "message" -> e.str
          [] k = "code"    -> e.code
          [] OTHER         -> e[k]]

ExceptDgeqError ==
    /\ pc = "raised"
    /\ exc.dgeq
    /\ output' = DgeqErrorResult(exc)
    /\ pc' = "done"
    /\ UNCHANGED <<query, query_dict_list, annotate_early, field_index, command_index, exc,
                   trace, cf, fn>>

\* The envelope of any other exception.
ExceptionResult(e) ==
    [k \in {"status", "message", "code"} |->
        CASE k = "status"  -> FALSE
          [] k = "message" -> e.str
          [] k = "code"    -> "UNKNOWN"]

ExceptException ==
    /\ pc = "raised"
    /\ ~exc.dgeq
    /\ output' = ExceptionResult(exc)
    /\ pc' = "done"
    /\ UNCHANGED <<query, query_dict_list, annotate_early, field_index, command_index, exc,
                   trace, cf, fn>>

Next ==
    \/ CallCase
    \/ CallAnnotate
    \/ CallFiltering
    \/ CallSort
    \/ CallSubset
    \/ CallJoin
    \/ CallShow
    \/ CallAggregate
    \/ CallEvaluate
    \/ EvaluateRows
    \/ CallCount
    \/ CallTime
    \/ Return
    \/ ExceptDgeqError
    \/ ExceptException

Spec == Init /\ [][Next]_vars

(***************************************************************************)
(* A call of check_field on its own: any censor, any model of the schema,  *)
(* any path of at most MaxPathLen segments, with or without an arbitrary   *)
(* field, under any value of the depth setting up to MaxDepthSetting.      *)
(***************************************************************************)
Tokens == {"name", "population", "region", "rivers", "countries", "length", "unknown", "rc"}

Paths == UNION {[1..n -> Tokens] : n \in 1..MaxPathLen}

Idle ==
    /\ query = GenericQuery("Country", NoCensor)
    /\ query_dict_list = <<>>
    /\ annotate_early = FALSE
    /\ pc = "done"
    /\ field_index = 1
    /\ command_index = 0
    /\ exc = NoException
    /\ trace = <<>>
    /\ output = NoOutput

InitCF ==
    /\ Idle
    /\ fn = NoFn
    /\ \E c \in CensorConfigs, model \in Models, a \in {{}, {"rc"}},
          max_depth \in 1..MaxDepthSetting, field \in Paths :
           cf = [NoCall EXCEPT !.censor = c, !.model = model, !.arbitrary_fields = a,
                               !.max_depth = max_depth, !.field = field]

CallCheckField ==
    /\ ~cf.called
    /\ cf' = [cf EXCEPT !.called = TRUE,
                        !.result = check_field(cf.field, cf.model, cf.censor,
                                               cf.arbitrary_fields, cf.max_depth)]
    /\ UNCHANGED <<query, query_dict_list, annotate_early, pc, field_index, command_index,
                   exc, trace, output, fn>>

NextCF == CallCheckField

SpecCF == InitCF /\ [][NextCF]_vars

(***************************************************************************)
(* A Filter on its own: it is built from a field, a value and the case     *)
(* flag, then asked for its predicate.  The values are the strings of at   *)
(* most MaxValueLen characters, and some dates, each with or without a     *)
(* modifier before it.                                                     *)
(***************************************************************************)
MaxValueLen == 3

ModifierChars == {"<", "[", ">", "]", "!", "^", "$", "*", "~"}

ValueChars == ModifierChars \cup {"1", "-", ".", "a"}

Dates ==
    { <<"1", "1", "1", "1">>,
      <<"1", "1", "1", "1", "-", "1", "1">>,
      <<"1", "1", "1", "1", "-", "1", "1", "-", "1", "1">>,
      <<"1", "1", "1", "1", "-", "1", "1", "-", "-", "1">> }

Literals == UNION {[1..n -> ValueChars] : n \in 0..MaxValueLen} \cup Dates

FilterValues == Literals \cup {<<m>> \o l : m \in ModifierChars, l \in Literals}

FilterFields == {"name", "unknown"}

InitFilter ==
    /\ Idle
    /\ cf = NoCall
    /\ \E field \in FilterFields, value \in FilterValues, case \in BOOLEAN :
           fn = [name |-> "Filter", pc |-> "new", field |-> field, value |-> value,
                 case |-> case, filter |-> NoFilter, got |-> NoQ]

\* f = Filter(field, value, case, model)
NewFilter ==
    LET made(f) ==
            fn' = [fn EXCEPT !.filter = f,
                             !.pc = IF f.exc.kind = "none" THEN "made" ELSE "raised"]
    IN  /\ fn.name = "Filter"
        /\ fn.pc = "new"
        /\ made(Filter(fn.field, fn.value, fn.case, "Country", NoCensor, {}))
        /\ UNCHANGED <<query, query_dict_list, annotate_early, pc, field_index,
                       command_index, exc, trace, output, cf>>

\* f.get()
GetFilter ==
    /\ fn.name = "Filter"
    /\ fn.pc = "made"
    /\ fn' = [fn EXCEPT !.got = Filter_get(fn.filter), !.pc = "got"]
    /\ UNCHANGED <<query, query_dict_list, annotate_early, pc, field_index, command_index,
                   exc, trace, output, cf>>

NextFilter == NewFilter \/ GetFilter

SpecFilter == InitFilter /\ [][NextFilter]_vars

(***************************************************************************)
(* The handler Filtering on its own, given the occurrences of one key: at  *)
(* most MaxOccurrences strings of at most MaxOccurrenceLen characters,     *)
(* commas among them.                                                      *)
(***************************************************************************)
MaxOccurrences == 2

MaxOccurrenceLen == 2

OccurrenceChars == {"1", ",", ">"}

Occurrences == UNION {[1..n -> OccurrenceChars] : n \in 0..MaxOccurrenceLen}

\* The list of values QueryDict.lists() gives for the strings of a key.
Listed(l) == [n \in 1..Len(l) |-> [Value("") EXCEPT !.chars = l[n]]]

InitFiltering ==
    /\ Idle
    /\ cf = NoCall
    /\ \E n \in 1..MaxOccurrences : \E l \in [1..n -> Occurrences] :
           fn = [name |-> "Filtering", pc |-> "new", field |-> "name", l |-> l,
                 result |-> Returns(GenericQuery("Country", NoCensor))]

\* Filtering()(query, query_dict)
CallFilteringAlone ==
    /\ fn.name = "Filtering"
    /\ fn.pc = "new"
    /\ fn' = [fn EXCEPT !.pc = "done",
                        !.result = Filtering(GenericQuery("Country", NoCensor), fn.field,
                                             Listed(fn.l))]
    /\ UNCHANGED <<query, query_dict_list, annotate_early, pc, field_index, command_index,
                   exc, trace, output, cf>>

NextFiltering == CallFilteringAlone

SpecFiltering == InitFiltering /\ [][NextFiltering]_vars

(***************************************************************************)
(* The computed fields on their own: the values of one c:annotate or one   *)
(* c:aggregate key, at most MaxComputed of them, are compiled by their     *)
(* handler, and the annotations are then applied, the early ones first.    *)
(***************************************************************************)
MaxComputed == 2

\* A value field=...|to=...|func=...|early=...|filters=...
Computed(field, to, func, early, filters) ==
    [Value("") EXCEPT !.field = field, !.to = to, !.func = func, !.early = early,
                      !.filters = filters]

\* The filters rivers.length=>2000, length=>2000, name=^A, rivers.length=>
\* and 1500.
SubFilters ==
    [rivers_length |-> <<"rivers.length", <<">", "2", "0", "0", "0">> >>,
     length        |-> <<"length", <<">", "2", "0", "0", "0">> >>,
     name          |-> <<"name", <<"^", "A">> >>,
     no_literal    |-> <<"rivers.length", <<">">> >>,
     no_equal      |-> <<"1500">>]

AnnotateValues ==
    { Computed(<<"rivers">>, "rc", "count", "0", <<>>),
      Computed(<<"rivers">>, "rc", "count", "1", <<SubFilters.rivers_length>>),
      Computed(<<"rivers">>, "rc0", "count", "0", <<SubFilters.length>>),
      Computed(<<"rivers">>, "rc0", "count", "1",
               <<SubFilters.rivers_length, SubFilters.name>>),
      Computed(<<"rivers">>, "rc0", "count", "0", <<SubFilters.no_equal>>),
      Computed(<<"rivers">>, "pmax", "count", "0", <<SubFilters.no_literal>>),
      Computed(<<"rivers">>, "population", "count", "0", <<>>),
      Computed(<<"rivers">>, "name", "count", "1", <<>>),
      Computed(<<"rivers">>, "1x", "count", "0", <<>>),
      Computed(<<"unknown">>, "rc", "count", "0", <<>>) }

AggregateValues ==
    { Computed(<<"population">>, "pmax", "max", "0", <<>>),
      Computed(<<"population">>, "pmax", "min", "0", <<>>),
      Computed(<<"population">>, "name", "max", "0", <<>>),
      Computed(<<"population">>, "1x", "max", "0", <<>>),
      Computed(<<"unknown">>, "rc", "max", "0", <<>>) }

InitCompute ==
    /\ Idle
    /\ cf = NoCall
    /\ \E c \in QueryCensors, n \in 1..MaxComputed :
           \/ \E values \in [1..n -> AnnotateValues] :
                  fn = [name |-> "Compute", pc |-> "new", key |-> "c:annotate",
                        values |-> values, compiled |-> FALSE,
                        q |-> GenericQuery("Country", c), exc |-> NoException]
           \/ \E values \in [1..n -> AggregateValues] :
                  fn = [name |-> "Compute", pc |-> "new", key |-> "c:aggregate",
                        values |-> values, compiled |-> FALSE,
                        q |-> GenericQuery("Country", c), exc |-> NoException]

\* What the call of a handler leaves: the query, and the exception if any.
Left(r, then, compiled) ==
    /\ fn' = [fn EXCEPT !.q = r.q, !.exc = r.exc, !.compiled = compiled /\ r.exc.kind = "none",
                        !.pc = IF r.exc.kind = "none" THEN then ELSE "raised"]
    /\ UNCHANGED <<query, query_dict_list, annotate_early, pc, field_index, command_index,
                   exc, trace, output, cf>>

\* ComputeAnnotation()(query, query_dict)
ComputeAnnotations ==
    /\ fn.name = "Compute" /\ fn.key = "c:annotate" /\ fn.pc = "new"
    /\ Left(ComputeAnnotation(fn.q, <<[key |-> fn.key, lst |-> fn.values]>>), "computed",
            TRUE)

\* Annotate(early=True)(query, query_dict)
AnnotateEarly ==
    /\ fn.name = "Compute" /\ fn.pc = "computed"
    /\ Left(Annotate_loop(fn.q, fn.q.annotations, TRUE), "early", TRUE)

\* Annotate(early=False)(query, query_dict)
AnnotateLate ==
    /\ fn.name = "Compute" /\ fn.pc = "early"
    /\ Left(Annotate_loop(fn.q, fn.q.annotations, FALSE), "applied", TRUE)

\* Aggregate()(query, query_dict)
ComputeAggregations ==
    /\ fn.name = "Compute" /\ fn.key = "c:aggregate" /\ fn.pc = "new"
    /\ Left(Aggregate(fn.q, <<[key |-> fn.key, lst |-> fn.values]>>), "aggregated", TRUE)

NextCompute == ComputeAnnotations \/ AnnotateEarly \/ AnnotateLate \/ ComputeAggregations

SpecCompute == InitCompute /\ [][NextCompute]_vars

(***************************************************************************)
(* The selection of fields on its own: Show() is called on a query with    *)
(* the c:show and c:hide lists, and the rows are then evaluated; or a join *)
(* is made from one c:join value.                                          *)
(***************************************************************************)
\* The lists of c:show and c:hide of a query on Country; rc is the name of
\* an annotation.
ShowLists ==
    { <<>>, <<"name">>, <<"name", "rivers">>, <<"population", "rc">>, <<"region">>,
      <<"unknown">> }

HideLists == { <<>>, <<"name">>, <<"population", "rivers">>, <<"rc">>, <<"region">> }

\* The show and hide lists of a join.
JoinShowLists == { <<>>, <<"name">>, <<"name", "countries">>, <<"length">> }

JoinHideLists == { <<>>, <<"name">>, <<"id", "countries">> }

JoinFields == { <<"rivers">>, <<"region">>, <<"rivers", "countries">> }

\* QueryDict.lists() of a query string with the two lists.
ShowQueryDict(show, hide) ==
    (IF show = <<>> THEN <<>>
     ELSE <<[key |-> "c:show", lst |-> [n \in 1..Len(show) |-> Value(show[n])]]>>)
    \o (IF hide = <<>> THEN <<>>
        ELSE <<[key |-> "c:hide", lst |-> [n \in 1..Len(hide) |-> Value(hide[n])]]>>)

InitSelect ==
    /\ Idle
    /\ cf = NoCall
    /\ \E c \in QueryCensors :
           \/ \E show \in ShowLists, hide \in HideLists, arbitrary_fields \in {{}, {"rc"}} :
                  fn = [name |-> "Select", pc |-> "new", of |-> "query",
                        value |-> Join_value("", <<>>, show, hide),
                        q |-> [GenericQuery("Country", c) EXCEPT
                                 !.arbitrary_fields = arbitrary_fields],
                        exc |-> NoException, node |-> <<>>, rows |-> {}]
           \/ \E field \in JoinFields, show \in JoinShowLists, hide \in JoinHideLists :
                  fn = [name |-> "Select", pc |-> "new", of |-> "join",
                        value |-> Join_value("", field, show, hide),
                        q |-> GenericQuery("Country", c),
                        exc |-> NoException, node |-> <<>>, rows |-> {}]

Selected(then, e) ==
    /\ fn' = [then EXCEPT !.exc = e, !.pc = IF e.kind = "none" THEN then.pc ELSE "raised"]
    /\ UNCHANGED <<query, query_dict_list, annotate_early, pc, field_index, command_index,
                   exc, trace, output, cf>>

\* Show()(query, query_dict)
ShowAlone ==
    /\ fn.name = "Select" /\ fn.of = "query" /\ fn.pc = "new"
    /\ LET shown(r) == Selected([fn EXCEPT !.q = r.q, !.pc = "shown"], r.exc)
       IN  shown(Show(fn.q, ShowQueryDict(fn.value.show, fn.value.hide)))

\* query._evaluate()
EvaluateShown ==
    /\ fn.name = "Select" /\ fn.of = "query" /\ fn.pc = "shown"
    /\ LET evaluated(r) == Selected([fn EXCEPT !.rows = r.rows, !.pc = "rows"], r.exc)
       IN  evaluated(_evaluate(fn.q))

\* JoinQuery.from_query_value(value, query.model, query.case, ...)
JoinAlone ==
    /\ fn.name = "Select" /\ fn.of = "join" /\ fn.pc = "new"
    /\ LET made(r) == Selected([fn EXCEPT !.node = r.node, !.pc = "made"], r.exc)
       IN  made(JoinQuery_from_query_value(fn.value, fn.q.model, fn.q.case, fn.q.censor,
                                           fn.q.arbitrary_fields))

NextSelect == ShowAlone \/ EvaluateShown \/ JoinAlone

SpecSelect == InitSelect /\ [][NextSelect]_vars

(***************************************************************************)
(* Rows with their values.  A database holds the relations of the          *)
(* instances: the region of each country and the rivers of each country.   *)
(* A to-one relation may be empty: utils.serialize_row tests it, for the   *)
(* models whose foreign keys are nullable (those of the test application   *)
(* are not).  The other values of an instance are not told apart.  A       *)
(* rendered value is a record: kind says whether it is the value of a      *)
(* field, None, a primary key, a list of primary keys, a row or a list of  *)
(* rows.  The storage layer lists the related instances by primary key.    *)
(***************************************************************************)
MaxInstances == 2

CountryIds == 1..MaxInstances

RiverIds == 1..MaxInstances

RegionIds == {1}

Databases ==
    [region : [CountryIds -> RegionIds \cup {0}], rivers : [CountryIds -> SUBSET RiverIds]]

Instance(model, pk) == [model |-> model, pk |-> pk]

\* The None that an empty to-one relation gives.
NoInstance == Instance("", 0)

\* getattr(item, f) of a to-one relation.
getattr_one(db, item, f) ==
    IF db.region[item.pk] = 0 THEN NoInstance ELSE Instance("Region", db.region[item.pk])

\* getattr(item, f).all() of a to-many relation: the primary keys.
getattr_all(db, item, f) ==
    CASE item.model = "Country" -> db.rivers[item.pk]
      [] item.model = "River"   -> {c \in CountryIds : item.pk \in db.rivers[c]}
      [] item.model = "Region"  -> {c \in CountryIds : db.region[c] = item.pk}

RECURSIVE Sorted(_)
Sorted(pks) ==
    IF pks = {} THEN <<>>
    ELSE LET least == CHOOSE n \in pks : \A m \in pks : n <= m
         IN  <<least>> \o Sorted(pks \ {least})

Rendered(kind) == [kind |-> kind, pk |-> 0, pks |-> <<>>, row |-> <<>>, rows |-> <<>>]

\* 'NoneType' object has no attribute ...
AttributeError == ExternalException("'NoneType' object has no attribute")

Fetched(val) == [exc |-> NoException, val |-> val]

FetchRaises(e) == [exc |-> e, val |-> Rendered("None")]

\* The row of the entries of its keys, or the exception one of them raised.
Row(entries) ==
    IF \E f \in DOMAIN entries : entries[f].exc.kind # "none"
    THEN FetchRaises(entries[CHOOSE f \in DOMAIN entries : entries[f].exc.kind # "none"].exc)
    ELSE Fetched([Rendered("row") EXCEPT !.row = [f \in DOMAIN entries |-> entries[f].val]])

\* The list of rows of a list of outcomes, or the first exception raised.
Rows(outcomes) ==
    IF Failed(outcomes) # {} THEN FetchRaises(outcomes[First(Failed(outcomes))].exc)
    ELSE Fetched([Rendered("rows") EXCEPT
                    !.rows = [n \in 1..Len(outcomes) |-> outcomes[n].val.row]])

\* A to-one relation that lacks the None test of serialize_row.
pk_of(related) ==
    IF related = NoInstance THEN FetchRaises(AttributeError)
    ELSE Fetched([Rendered("pk") EXCEPT !.pk = related.pk])

RECURSIVE JoinQuery_fetch(_, _, _, _)
\* The row that _fetch_many and _fetch_unique build for an item.
fetch_row(db, joins, path, item) ==
    LET node == joins[path]
        entry(f) ==
            IF f \in node.fields THEN Fetched([Rendered("value") EXCEPT !.pk = item.pk])
            ELSE IF Append(path, f) \in DOMAIN joins
            THEN JoinQuery_fetch(db, joins, Append(path, f), item)
            ELSE IF f \in node.unique_foreign_field THEN pk_of(getattr_one(db, item, f))
            ELSE Fetched([Rendered("pks") EXCEPT !.pks = Sorted(getattr_all(db, item, f))])
        names == node.fields \cup node.unique_foreign_field \cup node.many_foreign_fields
    IN  IF item = NoInstance /\ names # {} THEN FetchRaises(AttributeError)
        ELSE Row([f \in names |-> entry(f)])

_fetch_many(db, joins, path, obj) ==
    LET model == joins[path].model
        items(pks) == [n \in 1..Len(pks) |-> fetch_row(db, joins, path,
                                                       Instance(model, pks[n]))]
    IN  IF obj = NoInstance THEN FetchRaises(AttributeError)
        ELSE Rows(items(Sorted(getattr_all(db, obj, path[Len(path)]))))

_fetch_unique(db, joins, path, obj) ==
    IF obj = NoInstance THEN FetchRaises(AttributeError)
    ELSE fetch_row(db, joins, path, getattr_one(db, obj, path[Len(path)]))

JoinQuery_fetch(db, joins, path, obj) ==
    IF joins[path].many THEN _fetch_many(db, joins, path, obj)
    ELSE _fetch_unique(db, joins, path, obj)

\* utils.serialize_row, with the values.
serialize_row_values(db, instance, fields, one_fields, many_fields, joins) ==
    LET entry(f) ==
            IF f \in fields THEN Fetched([Rendered("value") EXCEPT !.pk = instance.pk])
            ELSE IF <<f>> \in DOMAIN joins THEN JoinQuery_fetch(db, joins, <<f>>, instance)
            ELSE IF f \in one_fields
            THEN IF getattr_one(db, instance, f) = NoInstance THEN Fetched(Rendered("None"))
                 ELSE pk_of(getattr_one(db, instance, f))
            ELSE Fetched([Rendered("pks") EXCEPT !.pks = Sorted(getattr_all(db, instance, f))])
    IN  Row([f \in fields \cup one_fields \cup many_fields |-> entry(f)])

\* GenericQuery._evaluate, for one item of the queryset.
_evaluate_item(db, q, instance) ==
    LET fields == _evaluate_fields(q)
    IN  serialize_row_values(db, instance,
                             {f \in fields : f \in q.arbitrary_fields
                                             \/ ~is_relation(q.model, f)},
                             {f \in fields \ q.arbitrary_fields : is_one(q.model, f)},
                             {f \in fields \ q.arbitrary_fields : is_many(q.model, f)},
                             q.joins)

(***************************************************************************)
(* The rows on their own: the joins of a query on Country are made by the  *)
(* handler of c:join, and one country of a database is then serialized.    *)
(* The joins have no filters, sort, start or limit.                        *)
(***************************************************************************)
JoinLists ==
    { <<>>,
      <<Join_value("", <<"rivers">>, <<>>, <<>>)>>,
      <<Join_value("", <<"region">>, <<>>, <<>>)>>,
      <<Join_value("", <<"region">>, <<>>, <<"id", "name", "countries">>)>>,
      <<Join_value("", <<"rivers", "countries">>, <<>>, <<>>)>>,
      <<Join_value("", <<"region", "countries">>, <<"name", "region">>, <<>>)>>,
      <<Join_value("", <<"rivers">>, <<"name">>, <<>>),
        Join_value("", <<"rivers", "countries">>, <<>>, <<"rivers">>)>>,
      <<Join_value("", <<"rivers", "countries", "region">>, <<>>, <<>>)>> }

InitRows ==
    /\ Idle
    /\ cf = NoCall
    /\ \E db \in Databases, lst \in JoinLists, pk \in CountryIds :
           fn = [name |-> "Rows", pc |-> "new", db |-> db, lst |-> lst,
                 instance |-> Instance("Country", pk),
                 q |-> GenericQuery("Country", NoCensor),
                 exc |-> NoException, row |-> Rendered("None")]

RowsLeft(then, e) ==
    /\ fn' = [then EXCEPT !.exc = e, !.pc = IF e.kind = "none" THEN then.pc ELSE "raised"]
    /\ UNCHANGED <<query, query_dict_list, annotate_early, pc, field_index, command_index,
                   exc, trace, output, cf>>

\* Join()(query, query_dict)
JoinRows ==
    /\ fn.name = "Rows" /\ fn.pc = "new"
    /\ LET joined(r) == RowsLeft([fn EXCEPT !.q = r.q, !.pc = "joined"], r.exc)
       IN  joined(Join(fn.q, IF fn.lst = <<>> THEN <<>>
                             ELSE <<[key |-> "c:join", lst |-> fn.lst]>>))

\* rows.append(utils.serialize_row(item, ...)) of GenericQuery._evaluate
SerializeRow ==
    /\ fn.name = "Rows" /\ fn.pc = "joined"
    /\ LET serialized(r) == RowsLeft([fn EXCEPT !.row = r.val, !.pc = "serialized"], r.exc)
       IN  serialized(_evaluate_item(fn.db, fn.q, fn.instance))

NextRows == JoinRows \/ SerializeRow

SpecRows == InitRows /\ [][NextRows]_vars

(***************************************************************************)
(* The censor on its own: Censor.is_private is called once, with the       *)
(* lists passed to the instance and the project-wide lists drawn           *)
(* independently.                                                          *)
(***************************************************************************)
\* The declarations of one of the four lists: none, or a list for Country,
\* for River or for both.
CensorMappings ==
    {NoMapping}
    \cup {[m \in {"Country"} |-> l] : l \in {{}, {"name"}, {"name", "rivers"}}}
    \cup {[m \in {"River"} |-> {"name"}]}
    \cup {[m \in {"Country", "River"} |-> IF m = "Country" THEN l ELSE {"name"}] :
            l \in {{"name"}, {"name", "rivers"}}}

CensorPermissions ==
    { [use_permissions |-> FALSE, perms |-> {}],
      [use_permissions |-> TRUE, perms |-> {"Country", "River"}],
      [use_permissions |-> TRUE, perms |-> {"Country"}] }

CensorFields == {"name", "rivers", "countries", "population", "unknown"}

InitCensor ==
    /\ Idle
    /\ cf = NoCall
    /\ \E public \in CensorMappings, private \in CensorMappings,
          dgeq_public \in CensorMappings, dgeq_private \in CensorMappings,
          p \in CensorPermissions, model \in {"Country", "River"}, field \in CensorFields :
           fn = [name |-> "Censor", pc |-> "new",
                 c |-> [public |-> public, private |-> private,
                        dgeq_public |-> dgeq_public, dgeq_private |-> dgeq_private,
                        use_permissions |-> p.use_permissions, perms |-> p.perms],
                 model |-> model, field |-> field, private |-> FALSE, exc |-> NoException]

\* censor.is_private(model, field)
CallIsPrivate ==
    /\ fn.name = "Censor" /\ fn.pc = "new"
    /\ fn' = IF is_private_raises(fn.c, fn.model, fn.field)
             THEN [fn EXCEPT !.pc = "raised",
                             !.exc = UnknownFieldError(fn.model, fn.field, fn.c)]
             ELSE [fn EXCEPT !.pc = "returned",
                             !.private = is_private(fn.c, fn.model, fn.field)]
    /\ UNCHANGED <<query, query_dict_list, annotate_early, pc, field_index, command_index,
                   exc, trace, output, cf>>

NextCensor == CallIsPrivate

SpecCensor == InitCensor /\ [][NextCensor]_vars

(***************************************************************************)
(* The pagination on its own: Subset() is called once on a query, sliced   *)
(* or not before, with at most one value of c:start and of c:limit, and    *)
(* the rows are read from a table.                                         *)
(***************************************************************************)
MaxRows == 203

\* Maximum number of rows returned in a response.
DGEQ_MAX_LIMIT == 200

\* The rows of the model of the query, named by their position.
Table == [n \in 1..MaxRows |-> n]

StartLists == { <<>>, <<"0">>, <<"1">>, <<"2">>, <<"-1">>, <<"x">>, <<SuperscriptTwo>> }

LimitLists ==
    { <<>>, <<"0">>, <<"1">>, <<"2">>, <<"200">>, <<"201">>, <<"-1">>, <<SuperscriptTwo>> }

\* QueryDict.lists() of a query string with the two keys.
SubsetQueryDict(start, limit) ==
    (IF start = <<>> THEN <<>> ELSE <<[key |-> "c:start", lst |-> <<Value(start[1])>>]>>)
    \o (IF limit = <<>> THEN <<>> ELSE <<[key |-> "c:limit", lst |-> <<Value(limit[1])>>]>>)

InitSubset ==
    /\ Idle
    /\ cf = NoCall
    /\ \E start \in StartLists, limit \in LimitLists,
          queryset \in {QuerySet_all, QuerySet_slice(QuerySet_all, 1, 0)} :
           fn = [name |-> "Subset", pc |-> "new", start |-> start, limit |-> limit,
                 before |-> [GenericQuery("Country", NoCensor) EXCEPT !.queryset = queryset],
                 q |-> [GenericQuery("Country", NoCensor) EXCEPT !.queryset = queryset],
                 exc |-> NoException]

\* Subset()(query, query_dict)
SubsetAlone ==
    /\ fn.name = "Subset" /\ fn.pc = "new"
    /\ LET called(r) ==
               fn' = [fn EXCEPT !.q = r.q, !.exc = r.exc,
                                !.pc = IF r.exc.kind = "none" THEN "returned" ELSE "raised"]
       IN  called(Subset(fn.q, SubsetQueryDict(fn.start, fn.limit)))
    /\ UNCHANGED <<query, query_dict_list, annotate_early, pc, field_index, command_index,
                   exc, trace, output, cf>>

NextSubset == SubsetAlone

SpecSubset == InitSubset /\ [][NextSubset]_vars

(***************************************************************************)
(* The dispatch on its own: the two loops of evaluate() select, for each   *)
(* key of an input of at most MaxDispatched keys, the commands whose       *)
(* pattern matches it.  The handlers are not run.                          *)
(***************************************************************************)
MaxDispatched == 2

DispatchKeys == Keys \cup {"c:timex", "c:related", "capital", "hide"}

\* (c for c in commands if re.match(c.regex, field)), as (key index,
\* command) pairs in the order of the list.
RECURSIVE matching_commands(_, _, _)
matching_commands(commands, n, key) ==
    IF commands = <<>> THEN <<>>
    ELSE (IF re_match(Head(commands), key)
          THEN <<[index |-> n, key |-> key, command |-> Head(commands)]>> ELSE <<>>)
         \o matching_commands(Tail(commands), n, key)

InitDispatch ==
    /\ Idle
    /\ cf = NoCall
    /\ \E n \in 1..MaxDispatched : \E keys \in [1..n -> DispatchKeys] :
           fn = [name |-> "Dispatch", pc |-> "pre", keys |-> keys, n |-> 0, calls |-> <<>>]

\* One turn of a loop `for field, lst in self._query_dict_list`.
DispatchNext(stage, then) ==
    /\ fn.name = "Dispatch" /\ fn.pc = stage
    /\ fn' = IF fn.n = Len(fn.keys) THEN [fn EXCEPT !.pc = then, !.n = 0]
             ELSE [fn EXCEPT !.n = @ + 1,
                             !.calls = @ \o matching_commands(Commands(stage), fn.n + 1,
                                                              fn.keys[fn.n + 1])]
    /\ UNCHANGED <<query, query_dict_list, annotate_early, pc, field_index, command_index,
                   exc, trace, output, cf>>

DispatchPre == DispatchNext("pre", "post")

DispatchPost == DispatchNext("post", "done")

NextDispatch == DispatchPre \/ DispatchPost

SpecDispatch == InitDispatch /\ [][NextDispatch]_vars

(***************************************************************************)
(* The tree of joins on its own: add_join called any number of times on    *)
(* one tree, with joins made for the paths of relations of its model.      *)
(***************************************************************************)
MaxAdded == 3

MaxTreeDepth == 3

RECURSIVE RelationPath(_, _)
RelationPath(model, path) ==
    \/ path = <<>>
    \/ /\ is_relation(model, Head(path))
       /\ RelationPath(RelatedModel(model, Head(path)), Tail(path))

TreePaths(model) ==
    {path \in UNION {[1..n -> {"rivers", "region", "countries"}] : n \in 1..MaxTreeDepth} :
       RelationPath(model, path)}

TreeShowLists == { <<>>, <<"name">> }

InitTree ==
    /\ Idle
    /\ cf = NoCall
    /\ \E model \in {"Country", "River"} :
           fn = [name |-> "Tree", pc |-> "open", model |-> model, joins |-> NoJoins,
                 added |-> <<>>, exc |-> NoException]

\* j.add_join(field, JoinQuery(...), model)
AddJoin ==
    /\ fn.name = "Tree" /\ fn.pc = "open" /\ Len(fn.added) < MaxAdded
    /\ \E field \in TreePaths(fn.model), show \in TreeShowLists :
           LET added(r) ==
                   fn' = [fn EXCEPT !.joins = r.joins, !.exc = r.exc,
                                    !.added = Append(@, field),
                                    !.pc = IF r.exc.kind = "none" THEN "open" ELSE "raised"]
           IN  added(add_join(fn.joins, field,
                              JoinQuery(get_field(field, fn.model), field, show, <<>>, {}).node,
                              fn.model, <<>>))
    /\ UNCHANGED <<query, query_dict_list, annotate_early, pc, field_index, command_index,
                   exc, trace, output, cf>>

NextTree == AddJoin

SpecTree == InitTree /\ [][NextTree]_vars

(***************************************************************************)
(* The join handler step by step: the values are parsed, the joins are     *)
(* sorted, each is added to the tree of the query in turn, and the joins   *)
(* of the tree are prefetched.                                             *)
(***************************************************************************)
MaxDeclared == 3

JoinDeclaration(field, show, limit, sort, filters) ==
    [Join_value("", field, show, <<>>) EXCEPT !.limit = limit, !.sort = sort,
                                              !.filters = filters]

AttachValues ==
    { JoinDeclaration(<<"rivers">>, <<>>, "0", <<>>, <<>>),
      JoinDeclaration(<<"rivers">>, <<"name">>, "1", <<"-name">>, << <<"length", <<">", "5">> >> >>),
      JoinDeclaration(<<"rivers", "countries">>, <<>>, "0", <<>>, <<>>),
      JoinDeclaration(<<"rivers", "countries">>, <<"name">>, "2", <<"name">>, <<>>),
      JoinDeclaration(<<"region">>, <<"name">>, "0", <<>>, <<>>),
      JoinDeclaration(<<"region", "countries">>, <<>>, "0", <<>>, << <<"name">> >>),
      JoinDeclaration(<<"rivers", "countries", "region">>, <<>>, "0", <<>>, <<>>) }

\* The keys of query_joins, in the order a dict keeps them: that of the
\* first value of each field.
RECURSIVE query_joins_keys(_, _)
query_joins_keys(values, seen) ==
    IF values = <<>> THEN <<>>
    ELSE IF Head(values).field \in seen THEN query_joins_keys(Tail(values), seen)
    ELSE <<Head(values).field>>
             \o query_joins_keys(Tail(values), seen \cup {Head(values).field})

\* A handler that adds the joins in the order of their declaration.
sorted_as_declared(fields, depth) == fields

\* sorted(query_joins.items(), key=lambda i: i[0].count("__")): a stable
\* sort, the fields of one depth stay in the order of the dict.
RECURSIVE sorted_query_join(_, _)
sorted_query_join(fields, depth) ==
    IF \A n \in 1..Len(fields) : Len(fields[n]) < depth THEN <<>>
    ELSE LET at_depth(f) == Len(f) = depth
         IN  SelectSeq(fields, at_depth) \o sorted_query_join(fields, depth + 1)

InitAttach ==
    /\ Idle
    /\ cf = NoCall
    /\ \E k \in 0..MaxDeclared :
           \E lst \in [1..k -> AttachValues] :
               fn = [name |-> "Attach", pc |-> "new", lst |-> lst,
                     q |-> GenericQuery("Country", NoCensor),
                     made |-> NoJoins, sorted |-> <<>>, order |-> <<>>,
                     exc |-> NoException]

AttachLeft(then, e) ==
    /\ fn' = [then EXCEPT !.exc = e, !.pc = IF e.kind = "none" THEN then.pc ELSE "raised"]
    /\ UNCHANGED <<query, query_dict_list, annotate_early, pc, field_index, command_index,
                   exc, trace, output, cf>>

\* Join.__call__, up to the sort.
ParseJoins ==
    /\ fn.name = "Attach" /\ fn.pc = "new"
    /\ LET parsed(m) ==
               AttachLeft([fn EXCEPT !.pc = "sorted", !.made = m.joins,
                                     !.sorted = sorted_query_join(
                                                    query_joins_keys(fn.lst, {}), 1)],
                          m.exc)
       IN  parsed(query_joins(fn.q, fn.lst, NoJoins))

\* One turn of the loop: query.add_join(field, join, query.model)
AttachNext ==
    /\ fn.name = "Attach" /\ fn.pc = "sorted" /\ Len(fn.order) < Len(fn.sorted)
    /\ LET field == fn.sorted[Len(fn.order) + 1]
           added(r) ==
               AttachLeft([fn EXCEPT !.q.joins = r.joins, !.order = Append(@, field)], r.exc)
       IN  added(add_join(fn.q.joins, field, fn.made[field], fn.q.model, <<>>))

\* The end of the handler: the joins of the query are prefetched.
PrefetchJoins ==
    /\ fn.name = "Attach" /\ fn.pc = "sorted" /\ Len(fn.order) = Len(fn.sorted)
    /\ AttachLeft([fn EXCEPT !.pc = "done",
                             !.q.queryset = Chained(@, [Op("prefetch_related", "") EXCEPT
                                                          !.nodes = DOMAIN fn.q.joins])],
                  NoException)

NextAttach == ParseJoins \/ AttachNext \/ PrefetchJoins

SpecAttach == InitAttach /\ [][NextAttach]_vars

(***************************************************************************)
(* Rows and storage calls.  A queryset is read from the storage when it is *)
(* iterated: one call.  A queryset given prefetch_related reads, when it   *)
(* is iterated, the related instances of all its items with one call for   *)
(* each lookup, and keeps them with the items; select_related reads a      *)
(* to-one relation with the items.  The manager of a prefetched relation   *)
(* gives the kept instances without a call; a filter or an order_by on     *)
(* them is a new queryset, read from the storage again, whose items keep   *)
(* nothing; a slice of kept instances is a slice of the list.  A prefetched *)
(* to-one relation whose instance the queryset of the lookup leaves out is *)
(* kept as None.  The filters and the sorts are those on the primary key;  *)
(* without a sort the storage lists by primary key.                        *)
(***************************************************************************)
\* item passes queryset.filter(q), q on the primary key.
Q_holds(q, pk) ==
    LET n == Number(q.value)
        holds == CASE q.lookup = "gt"  -> pk > n
                   [] q.lookup = "gte" -> pk >= n
                   [] q.lookup = "lt"  -> pk < n
                   [] q.lookup = "lte" -> pk <= n
                   [] OTHER            -> pk = n
    IN  IF q.negated THEN ~holds ELSE holds

\* for f in self.filters: subquery = f.apply(subquery)
filters_raise(filters) == Failed([n \in 1..Len(filters) |-> Filter_get(filters[n])]) # {}

filters_exc(filters) ==
    Filter_get(filters[First(Failed([n \in 1..Len(filters) |-> Filter_get(filters[n])]))]).exc

filters_hold(filters, pk) ==
    \A n \in 1..Len(filters) : Q_holds(Filter_get(filters[n]).q, pk)

Reverse(seq) == [n \in 1..Len(seq) |-> seq[Len(seq) + 1 - n]]

\* subquery.order_by(*self.sort)
order_by(sort, pks) == IF sort = <<"-id">> THEN Reverse(Sorted(pks)) ELSE Sorted(pks)

Counted(r, calls) == [exc |-> r.exc, val |-> r.val, calls |-> calls]

RECURSIVE Calls(_, _)
Calls(outcomes, keys) ==
    IF keys = {} THEN 0
    ELSE LET k == CHOOSE k \in keys : TRUE
         IN  outcomes[k].calls + Calls(outcomes, keys \ {k})

RECURSIVE JoinQuery_fetch_calls(_, _, _, _, _)
\* The row of an item and the storage calls made for it; kept says whether
\* the item holds the prefetched instances of its relations.
fetch_row_calls(db, joins, path, item, kept) ==
    LET node == joins[path]
        entry(f) ==
            IF f \in node.fields
            THEN Counted(Fetched([Rendered("value") EXCEPT !.pk = item.pk]), 0)
            ELSE IF Append(path, f) \in DOMAIN joins
            THEN JoinQuery_fetch_calls(db, joins, Append(path, f), item, kept)
            ELSE IF f \in node.unique_foreign_field
            THEN Counted(pk_of(getattr_one(db, item, f)), IF kept THEN 0 ELSE 1)
            ELSE Counted(Fetched([Rendered("pks") EXCEPT !.pks = Sorted(getattr_all(db, item, f))]),
                         IF kept THEN 0 ELSE 1)
        names == node.fields \cup node.unique_foreign_field \cup node.many_foreign_fields
        row(entries) == Counted(Row(entries), Calls(entries, names))
    IN  IF item = NoInstance /\ names # {} THEN Counted(FetchRaises(AttributeError), 0)
        ELSE row([f \in names |-> entry(f)])

_fetch_many_calls(db, joins, path, obj, kept) ==
    LET node  == joins[path]
        fresh == node.filters # <<>> \/ node.sort # <<>> \/ ~kept
        listed == Slice(order_by(node.sort,
                                 {pk \in getattr_all(db, obj, path[Len(path)]) :
                                    filters_hold(node.filters, pk)}),
                        node.start, node.limit)
        rows(items) == Counted(Rows(items),
                               (IF fresh THEN 1 ELSE 0) + Calls(items, 1..Len(items)))
    IN  IF obj = NoInstance THEN Counted(FetchRaises(AttributeError), 0)
        ELSE IF filters_raise(node.filters)
        THEN Counted(FetchRaises(filters_exc(node.filters)), 0)
        ELSE rows([n \in 1..Len(listed) |->
                     fetch_row_calls(db, joins, path, Instance(node.model, listed[n]),
                                     ~fresh)])

_fetch_unique_calls(db, joins, path, obj, kept) ==
    LET node    == joins[path]
        target  == getattr_one(db, obj, path[Len(path)])
        related == IF kept /\ target # NoInstance /\ ~filters_hold(node.filters, target.pk)
                   THEN NoInstance ELSE target
        row(r) == Counted(r, (IF kept THEN 0 ELSE 1) + r.calls)
    IN  IF obj = NoInstance THEN Counted(FetchRaises(AttributeError), 0)
        ELSE row(fetch_row_calls(db, joins, path, related, kept))

JoinQuery_fetch_calls(db, joins, path, obj, kept) ==
    IF joins[path].many THEN _fetch_many_calls(db, joins, path, obj, kept)
    ELSE _fetch_unique_calls(db, joins, path, obj, kept)

\* The calls made for the lookups of JoinQuery.prefetch when the queryset
\* is iterated: one for the join, one for each to-many relation of its
\* model without a join.
prefetch_calls(joins) ==
    Cardinality(DOMAIN joins)
    + Cardinality({pf \in (DOMAIN joins) \X {"rivers", "countries"} :
                     /\ pf[2] \in joins[pf[1]].many_foreign_fields
                     /\ Append(pf[1], pf[2]) \notin DOMAIN joins})

\* JoinQuery.prefetch builds the queryset of the lookup with the filters.
prefetch_raises(joins) == \E path \in DOMAIN joins : filters_raise(joins[path].filters)

(***************************************************************************)
(* The joins of a tree fetched for the countries of a database, with the   *)
(* prefetch of the tree applied to the queryset of the countries or not.   *)
(***************************************************************************)
FetchLists ==
    { <<JoinDeclaration(<<"rivers">>, <<>>, "0", <<>>, <<>>)>>,
      <<JoinDeclaration(<<"rivers">>, <<"name">>, "0", <<"-id">>, <<>>)>>,
      <<JoinDeclaration(<<"rivers">>, <<>>, "0", <<>>, << <<"id", <<">", "1">> >> >>)>>,
      <<JoinDeclaration(<<"rivers">>, <<"name">>, "1", <<>>, <<>>)>>,
      <<JoinDeclaration(<<"region">>, <<>>, "0", <<>>, <<>>)>>,
      <<JoinDeclaration(<<"region">>, <<"name">>, "0", <<>>, << <<"id", <<">", "1">> >> >>)>>,
      <<JoinDeclaration(<<"rivers">>, <<>>, "0", <<>>, << <<"id", <<"^", "1">> >> >>)>>,
      <<JoinDeclaration(<<"rivers", "countries">>, <<"name">>, "1", <<"-id">>,
                        << <<"id", <<"[", "1">> >> >>)>>,
      <<JoinDeclaration(<<"rivers", "countries", "rivers">>, <<"name">>, "1", <<"-id">>,
                        << <<"id", <<"[", "1">> >> >>)>>,
      <<JoinDeclaration(<<"rivers">>, <<"name">>, "0", <<>>, <<>>),
        JoinDeclaration(<<"rivers", "countries">>, <<"name">>, "0", <<>>, <<>>)>> }

InitFetch ==
    /\ Idle
    /\ cf = NoCall
    /\ \E db \in Databases, lst \in FetchLists, prefetched \in BOOLEAN :
           fn = [name |-> "Fetch", pc |-> "new", db |-> db, lst |-> lst,
                 prefetched |-> prefetched,
                 q |-> GenericQuery("Country", NoCensor),
                 loaded |-> {}, loads |-> 0, calls |-> 0, items |-> <<>>, rows |-> <<>>,
                 exc |-> NoException]

FetchLeft(then, e) ==
    /\ fn' = [then EXCEPT !.exc = e, !.pc = IF e.kind = "none" THEN then.pc ELSE "raised"]
    /\ UNCHANGED <<query, query_dict_list, annotate_early, pc, field_index, command_index,
                   exc, trace, output, cf>>

\* j.add_join(field, JoinQuery.from_query_value(...), model)
MakeTree ==
    /\ fn.name = "Fetch" /\ fn.pc = "new"
    /\ LET added(r) == FetchLeft([fn EXCEPT !.q.joins = r.joins, !.pc = "tree"], r.exc)
           parsed(m) ==
               IF m.exc.kind # "none" THEN FetchLeft(fn, m.exc)
               ELSE added(add_joins(fn.q.joins, fn.q.model, m.joins, 1))
       IN  parsed(query_joins(fn.q, fn.lst, NoJoins))

\* queryset = j.prefetch(queryset), for the joins of the root
ApplyPrefetch ==
    /\ fn.name = "Fetch" /\ fn.pc = "tree" /\ fn.prefetched
    /\ IF prefetch_raises(fn.q.joins)
       THEN FetchLeft(fn, filters_exc(fn.q.joins[CHOOSE path \in DOMAIN fn.q.joins :
                                                     filters_raise(fn.q.joins[path].filters)
                                                ].filters))
       ELSE FetchLeft([fn EXCEPT !.pc = "lookups",
                                 !.q.queryset = Chained(@, [Op("prefetch_related", "") EXCEPT
                                                              !.nodes = DOMAIN fn.q.joins])],
                      NoException)

\* for c in queryset: the queryset is read, and its lookups after it.
Iterate ==
    /\ fn.name = "Fetch"
    /\ \/ fn.pc = "tree" /\ ~fn.prefetched
       \/ fn.pc = "lookups"
    /\ FetchLeft([fn EXCEPT !.pc = "rows",
                            !.items = Sorted(CountryIds),
                            !.loaded = IF fn.prefetched THEN DOMAIN fn.q.joins ELSE {},
                            !.loads = 1 + (IF fn.prefetched THEN prefetch_calls(fn.q.joins)
                                           ELSE 0)],
                 NoException)

\* j.fetch(c), for each join j of the root
fetch_joins(db, joins, obj, kept) ==
    LET top == {path \in DOMAIN joins : Len(path) = 1}
        row(entries) == Counted(Row(entries), Calls(entries, top))
    IN  row([path \in top |-> JoinQuery_fetch_calls(db, joins, path, obj, kept)])

FetchNext ==
    /\ fn.name = "Fetch" /\ fn.pc = "rows" /\ Len(fn.rows) < Len(fn.items)
    /\ LET fetched(r) ==
               FetchLeft([fn EXCEPT !.rows = Append(@, [exc |-> r.exc, val |-> r.val]),
                                    !.calls = @ + r.calls],
                         NoException)
       IN  fetched(fetch_joins(fn.db, fn.q.joins,
                               Instance("Country", fn.items[Len(fn.rows) + 1]),
                               fn.prefetched))

NextFetch == MakeTree \/ ApplyPrefetch \/ Iterate \/ FetchNext

SpecFetch == InitFetch /\ [][NextFetch]_vars

(***************************************************************************)
(* Properties of the resolver.                                             *)
(***************************************************************************)
\* The model reached by following the first k - 1 segments of a path.
RECURSIVE ModelAt(_, _, _)
ModelAt(field, model, k) ==
    IF k = 1 THEN model
    ELSE RelatedModel(ModelAt(field, model, k - 1), field[k - 1])

\* The censor lets the name through for the model.
Visible(c, model, token) == ~is_private_raises(c, model, token) /\ ~is_private(c, model, token)

\* The censor removes the name, whether the schema has it or not.
Censored(c, model, token) == ~is_private_raises(c, model, token) /\ is_private(c, model, token)

\* The first k - 1 segments are relations of the schema that the censor
\* lets through.
RECURSIVE PrefixResolves(_, _, _, _)
PrefixResolves(field, model, c, k) ==
    \/ k = 1
    \/ /\ PrefixResolves(field, model, c, k - 1)
       /\ ~FieldDoesNotExist(ModelAt(field, model, k - 1), field[k - 1])
       /\ is_relation(ModelAt(field, model, k - 1), field[k - 1])
       /\ Visible(c, ModelAt(field, model, k - 1), field[k - 1])

\* The path with its k-th segment replaced by a name no model has.
Twin(field, k) == [field EXCEPT ![k] = "unknown"]

SameToCaller(e, twin) ==
    /\ twin.kind = e.kind
    /\ twin.code = e.code
    /\ details(twin) = details(e)
    /\ twin.table = e.table
    /\ twin.valid_fields = e.valid_fields

\* C6: under every censor, resolving a path that reaches a censored segment
\* raises UnknownFieldError naming that segment, with the code, the detail
\* names, the table and the valid_fields that the same call raises when the
\* segment is replaced by a name the schema does not have.
C6_CensoredIsUnknown ==
    cf.called =>
        \A k \in 1..Len(cf.field) :
            (/\ Len(cf.field) < cf.max_depth
             /\ PrefixResolves(cf.field, cf.model, cf.censor, k)
             /\ Censored(cf.censor, ModelAt(cf.field, cf.model, k), cf.field[k]))
            => /\ cf.result.exc.kind = "UnknownFieldError"
               /\ cf.result.exc.code = "UNKNOWN_FIELD"
               /\ details(cf.result.exc) = {"table", "unknown", "valid_fields"}
               /\ cf.result.exc.unknown = cf.field[k]
               /\ SameToCaller(cf.result.exc,
                               check_field(Twin(cf.field, k), cf.model, cf.censor,
                                           cf.arbitrary_fields, cf.max_depth).exc)

\* A censored attribute of the schema was reached through a relation, under
\* a censor that checks permissions.
C6_Witness ==
    /\ cf.called
    /\ cf.censor.use_permissions
    /\ Len(cf.field) = 2
    /\ Len(cf.field) < cf.max_depth
    /\ PrefixResolves(cf.field, cf.model, cf.censor, 2)
    /\ ~FieldDoesNotExist(ModelAt(cf.field, cf.model, 2), cf.field[2])
    /\ Censored(cf.censor, ModelAt(cf.field, cf.model, 2), cf.field[2])
    /\ cf.result.exc.kind = "UnknownFieldError"

\* C8: the valid_fields of an UnknownFieldError and the related_fields of a
\* NotARelatedFieldError hold no name the censor marks private for the
\* table of the error.
C8_ErrorListsAreCensored ==
    cf.called =>
        /\ cf.result.exc.kind = "UnknownFieldError" =>
               \A f \in cf.result.exc.valid_fields :
                   ~is_private(cf.censor, cf.result.exc.table, f)
        /\ cf.result.exc.kind = "NotARelatedFieldError" =>
               \A f \in cf.result.exc.related_fields :
                   ~is_private(cf.censor, cf.result.exc.table, f)

\* An UnknownFieldError whose valid_fields lack a field of its table.
C8_Witness ==
    /\ cf.called
    /\ cf.result.exc.kind = "UnknownFieldError"
    /\ FieldNames(cf.result.exc.table) \ cf.result.exc.valid_fields # {}
    /\ cf.result.exc.valid_fields # {}

\* Every segment but the last is a visible relation of the schema, and the
\* last is a visible field of the model reached.
ValidPath(field, model, c) ==
    /\ PrefixResolves(field, model, c, Len(field))
    /\ ~FieldDoesNotExist(ModelAt(field, model, Len(field)), field[Len(field)])
    /\ Visible(c, ModelAt(field, model, Len(field)), field[Len(field)])

Pipeline == DGEQ_PRE_COMMANDS \o DGEQ_POST_COMMANDS

\* The place of a command in the pipeline, as declared.
Declared(command) == CHOOSE n \in 1..Len(Pipeline) : Pipeline[n] = command

\* C1: the handlers are invoked in the order the pipeline declares them,
\* whatever the order of the keys of the input: a handler invoked after
\* another is not declared before it.
C1_DeclaredOrder ==
    \A a, b \in 1..Len(trace) :
        a < b => Declared(trace[a].command) <= Declared(trace[b].command)

\* The pagination handler returned, and a slice was taken.
SubsetSliced(n) ==
    /\ trace[n].command = "Subset"
    /\ n < Len(trace) \/ exc.kind = "none"
    /\ query.queryset.sliced

\* C2: once the pagination handler has sliced the query, the query context
\* is marked sliced, and a later invocation of the filter or of the sort
\* handler is the last of the evaluation and raised InvalidCommandError.
C2_SlicedRefusesFilterAndSort ==
    \A a \in 1..Len(trace) :
        SubsetSliced(a) =>
            /\ query.sliced
            /\ \A b \in (a + 1)..Len(trace) :
                   trace[b].command \in {"Filtering", "Sort"} =>
                       b = Len(trace) /\ exc.kind = "InvalidCommandError"

\* The places in the queryset of the operations of a kind.
Applied(op) == {n \in 1..Len(query.queryset.ops) : query.queryset.ops[n].op = op}

\* C3: every annotation declared early is applied before every filter of
\* the main query, every other annotation after all of them, and the
\* Annotate handler applies the annotations of its own flag and no other.
C3_EarlyAroundFilters ==
    /\ \A x \in Applied("annotate") : query.queryset.ops[x].early = annotate_early
    /\ (pc = "done" /\ exc.kind = "none") =>
           \A x \in Applied("annotate") :
               \A f \in Applied("filter") :
                   IF query.queryset.ops[x].early THEN x < f ELSE f < x

DgeqErrorEnvelope(e, envelope) ==
    /\ DOMAIN envelope = {"status", "message", "code"} \cup details(e)
    /\ envelope["status"] = FALSE
    /\ envelope["message"] = e.str
    /\ envelope["code"] = e.code
    /\ \A k \in details(e) : envelope[k] = e[k]
    /\ DOMAIN envelope \cap {"rows", "count", "time", "pmax"} = {}

\* C4: once a DgeqError is raised no other handler is invoked and the query
\* is left as it is, and what evaluate returns is exactly status false, the
\* message, the code and the details of the error, with nothing of what the
\* result had accumulated.
C4_DgeqErrorEnvelope ==
    /\ []((pc = "done" /\ exc.dgeq) => DgeqErrorEnvelope(exc, output))
    /\ [][exc.dgeq => (trace' = trace /\ query' = query /\ exc' = exc)]_vars

\* A DgeqError raised after the rows, and a count or a time, were put in
\* the result.
C4_Witness ==
    /\ pc = "done"
    /\ exc.dgeq
    /\ "rows" \in DOMAIN query.result
    /\ Len(trace) >= 2
    /\ DOMAIN query.result \cap {"count", "time"} # {}
    /\ output["status"] = FALSE

\* C5: an exception outside the taxonomy gives status false and the code
\* UNKNOWN, and no part of its text is in the message returned.
C5_NoInternalText ==
    (pc = "done" /\ exc.kind = "Exception") =>
        /\ output["status"] = FALSE
        /\ output["code"] = "UNKNOWN"
        /\ Range(exc.str) \cap Range(output["message"]) = {}

C10_JoinOnNonRelation ==
    (trace # <<>> /\ trace[Len(trace)].command = "Join") =>
        LET resolves(r) == r.ok /\ ~is_relation(r.model, r.field)
        IN  resolves(check_field(getlist(query_dict_list, "c:join")[1].field, query.model,
                                 query.censor, query.arbitrary_fields,
                                 DGEQ_MAX_NESTED_FIELD_DEPTH))
            => exc.kind = "NotARelatedFieldError"

(***************************************************************************)
(* Properties of Filter.                                                   *)
(***************************************************************************)
\* The filter of the call has been built.
Built == fn.name = "Filter" /\ fn.pc \in {"made", "got"}

\* The text a value must be read from: the value after its first character
\* when that character is a modifier, the whole value otherwise.
Literal(value) ==
    IF value # <<>> /\ value[1] \in ModifierChars THEN Tail(value) ELSE value

\* The typed value a filter holds is the one read from the text.
ReadFrom(f, text) ==
    /\ f.type = parse(DEFAULT_TYPE_PARSERS, text).type
    /\ f.value = parse(DEFAULT_TYPE_PARSERS, text).value

\* C11: when the first character of a value is one of < [ > ] ! ^ $ * ~ the
\* modifier of the filter is that character and its literal is read from
\* the rest of the value; otherwise the modifier is empty and the literal
\* is read from the whole value.  A second modifier character stays in the
\* literal, which is then a string, and a value that is one modifier
\* character gives that modifier with the null literal.
C11_ModifierIsFirstCharacter ==
    Built =>
        /\ IF fn.value # <<>> /\ fn.value[1] \in ModifierChars
           THEN fn.filter.modifier = fn.value[1] /\ ReadFrom(fn.filter, Tail(fn.value))
           ELSE fn.filter.modifier = "" /\ ReadFrom(fn.filter, fn.value)
        /\ (Len(fn.value) >= 2 /\ fn.value[1] \in ModifierChars
                /\ fn.value[2] \in ModifierChars)
              => fn.filter.type = "str" /\ fn.filter.value = Tail(fn.value)
        /\ (Len(fn.value) = 1 /\ fn.value[1] \in ModifierChars)
              => fn.filter.type = "NoneType"

\* A filter built from a value that starts with two modifier characters.
C11_Witness ==
    /\ Built
    /\ fn.value = <<">", "<", "1">>
    /\ fn.filter.modifier = ">"
    /\ fn.filter.value = <<"<", "1">>

\* C12: for the types the table defines them on, < compiles to a less-than
\* comparison, [ to less-or-equal, > to greater-than and ] to
\* greater-or-equal.
C12_OrderingModifiers ==
    (fn.name = "Filter" /\ fn.pc = "got" /\ fn.got.exc.kind = "none") =>
        /\ fn.filter.modifier = "<" => fn.got.q.lookup = "lt"
        /\ fn.filter.modifier = "[" => fn.got.q.lookup = "lte"
        /\ fn.filter.modifier = ">" => fn.got.q.lookup = "gt"
        /\ fn.filter.modifier = "]" => fn.got.q.lookup = "gte"

\* C13: the typed literal is the result of the first parser that accepts
\* the text, tried in the order null, integer, float, datetime, and the text
\* itself as a string when none accepts it.
C13_FirstParserWins ==
    Built =>
        LET text == Literal(fn.value)
        IN  /\ text = <<>> => fn.filter.type = "NoneType"
            /\ (text # <<>> /\ int_parser(text) # Ellipsis)
                  => fn.filter.type = "int" /\ fn.filter.value = int_parser(text).value
            /\ (text # <<>> /\ int_parser(text) = Ellipsis /\ float_parser(text) # Ellipsis)
                  => fn.filter.type = "float"
            /\ (text # <<>> /\ int_parser(text) = Ellipsis /\ float_parser(text) = Ellipsis
                    /\ datetime_parser(text) # Ellipsis)
                  => fn.filter.type = "datetime"
            /\ (text # <<>> /\ int_parser(text) = Ellipsis /\ float_parser(text) = Ellipsis
                    /\ datetime_parser(text) = Ellipsis)
                  => fn.filter.type = "str" /\ fn.filter.value = text

\* A text the integer, float and datetime parsers all accept, held as an
\* integer.
C13_Witness ==
    /\ Built
    /\ fn.filter.type = "int"
    /\ float_parser(Literal(fn.value)) # Ellipsis
    /\ datetime_parser(Literal(fn.value)) # Ellipsis

\* The pairs (modifier, type) of the operator table.
TableKeys ==
    {k \in (ModifierChars \cup {""}) \X Types :
        \/ k[1] \in {"", "!"} /\ k[2] # "float"
        \/ k[1] \in {"<", "[", ">", "]"} /\ k[2] # "NoneType"
        \/ k[1] \in {"^", "$", "*", "~"} /\ k[2] = "str"}

\* C14: Filter.get gives a predicate exactly when (modifier, type of the
\* literal) is a key of the operator table, and otherwise raises
\* SearchModifierError with the modifier, the value and the name of the
\* type.
C14_PredicateIffInTable ==
    (fn.name = "Filter" /\ fn.pc = "got") =>
        /\ fn.got.exc.kind = "none" <=> <<fn.filter.modifier, fn.filter.type>> \in TableKeys
        /\ fn.got.exc.kind # "none" =>
              /\ fn.got.exc.kind = "SearchModifierError"
              /\ fn.got.exc.modifier = fn.filter.modifier
              /\ fn.got.exc.value = fn.filter.value
              /\ fn.got.exc.type = fn.filter.type
              /\ details(fn.got.exc) = {"modifier", "value", "type"}
        /\ (fn.filter.modifier \in {"", "!"} /\ fn.filter.type = "float")
              => fn.got.exc.kind = "SearchModifierError"
        /\ (fn.filter.modifier \in {"<", "[", ">", "]"} /\ fn.filter.type = "NoneType")
              => fn.got.exc.kind = "SearchModifierError"
        /\ (fn.filter.modifier \in {"^", "$", "*", "~"} /\ fn.filter.type # "str")
              => fn.got.exc.kind = "SearchModifierError"

\* > on the null literal has raised.
C14_Witness ==
    /\ fn.name = "Filter"
    /\ fn.pc = "got"
    /\ fn.value = <<">">>
    /\ fn.got.exc.kind = "SearchModifierError"
    /\ fn.got.exc.type = "NoneType"

\* The predicate of the filter of the call with its modifier replaced.
Compiled(modifier) == Filter_get([fn.filter EXCEPT !.modifier = modifier])

\* The predicate compiled from the value of the call without its first
\* character.
CompiledBare ==
    Filter_get(Filter(fn.field, Tail(fn.value), fn.case, "Country", NoCensor, {}))

\* C15: where equality is defined, the predicate of ! followed by a literal
\* is the negation of the equality predicate on the same attribute, operator
\* and typed value, which is the predicate of the bare literal when the
\* literal does not itself start with a modifier; the predicate of ~s is
\* the negation of the predicate of *s; no other modifier negates.
C15_NegatedModifiers ==
    (fn.name = "Filter" /\ fn.pc = "got") =>
        /\ (fn.filter.modifier = "!" /\ Compiled("").exc.kind = "none") =>
              /\ fn.got.exc.kind = "none"
              /\ ~Compiled("").q.negated
              /\ fn.got.q = [Compiled("").q EXCEPT !.negated = TRUE]
              /\ (Len(fn.value) = 1 \/ fn.value[2] \notin ModifierChars)
                    => CompiledBare = Compiled("")
        /\ (fn.filter.modifier = "~" /\ Compiled("*").exc.kind = "none") =>
              /\ fn.got.exc.kind = "none"
              /\ ~Compiled("*").q.negated
              /\ fn.got.q = [Compiled("*").q EXCEPT !.negated = TRUE]
        /\ (fn.filter.modifier \notin {"!", "~"} /\ fn.got.exc.kind = "none")
              => ~fn.got.q.negated

\* ! followed by an integer has compiled to a negated predicate.
C15_Witness ==
    /\ fn.name = "Filter"
    /\ fn.pc = "got"
    /\ fn.value = <<"!", "1", "1">>
    /\ fn.got.exc.kind = "none"
    /\ fn.got.q.negated
    /\ fn.got.q.lookup = "exact"

(***************************************************************************)
(* Properties of the handler Filtering.                                    *)
(***************************************************************************)
\* The positions of the commas of a string.
Commas(s) == {n \in 1..Len(s) : s[n] = ","}

\* The k-th value of a string: the characters that have k - 1 commas
\* before them.
NthValue(s, k) ==
    LET at == {n \in 1..Len(s) :
                  s[n] # "," /\ Cardinality({m \in Commas(s) : m < n}) = k - 1}
    IN  IF at = {} THEN <<>>
        ELSE SubSeq(s, First(at), CHOOSE n \in at : \A m \in at : m <= n)

\* The values of a list of strings: those of each string, in order.
RECURSIVE Flattened(_)
Flattened(l) ==
    IF l = <<>> THEN <<>>
    ELSE [k \in 1..(Cardinality(Commas(Head(l))) + 1) |-> NthValue(Head(l), k)]
         \o Flattened(Tail(l))

\* The predicate one value compiles to.
Predicate(field, value) ==
    Filter_get(Filter(field, value, TRUE, "Country", NoCensor, {}))

\* C16: the values of a key are the comma-separated parts of each of its
\* occurrences, in order, so that k=v1,v2 and k=v1&k=v2 are treated alike;
\* every value compiles to one predicate, and the queryset is restricted by
\* all of them.
C16_CommaAndRepetitionAlike ==
    (fn.name = "Filtering" /\ fn.pc = "done") =>
        LET values == Flattened(fn.l)
            ops    == fn.result.q.queryset.ops
            bad    == {k \in 1..Len(values) : Predicate(fn.field, values[k]).exc.kind # "none"}
        IN  /\ fn.result = Filtering(GenericQuery("Country", NoCensor), fn.field,
                                     Listed(values))
            /\ bad = {} =>
                  /\ fn.result.exc.kind = "none"
                  /\ ops = [k \in 1..Len(values) |-> Predicate(fn.field, values[k]).q]
            /\ bad # {} => fn.result.exc = Predicate(fn.field, values[First(bad)]).exc

\* A key given twice, the first time with two values separated by a comma
\* (the second of them empty): three
\* predicates restrict the queryset.
C16_Witness ==
    /\ fn.name = "Filtering"
    /\ fn.pc = "done"
    /\ fn.l = << <<"1", ",">>, <<">", "1">> >>
    /\ fn.result.exc.kind = "none"
    /\ Len(fn.result.q.queryset.ops) = 3

(***************************************************************************)
(* Properties of the computed fields.                                      *)
(***************************************************************************)
\* The `to` of the k-th value is no identifier, or the name of a field of
\* the model, or the `to` of an earlier value.
BadTo(values, k, model) ==
    \/ ~isidentifier(values[k].to)
    \/ values[k].to \in FieldNames(model)
    \/ \E j \in 1..(k - 1) : values[j].to = values[k].to

\* C17: compiling a c:annotate or c:aggregate value fails with
\* InvalidCommandError whenever its `to` is not an identifier, is the name
\* of a field of the model (exposed by the censor or not) or is the `to` of
\* an earlier value of the query; otherwise the name is accepted and the
\* `to` of an annotation joins the arbitrary fields.
C17_ToNameChecked ==
    (fn.name = "Compute" /\ fn.pc # "new") =>
        /\ fn.compiled => \A k \in 1..Len(fn.values) : ~BadTo(fn.values, k, fn.q.model)
        /\ (~fn.compiled /\ BadTo(fn.values, 1, fn.q.model)
                /\ check_field(fn.values[1].field, fn.q.model, fn.q.censor, {},
                               DGEQ_MAX_NESTED_FIELD_DEPTH).ok)
              => fn.exc.kind = "InvalidCommandError"
        /\ (fn.compiled /\ fn.key = "c:annotate")
              => \A k \in 1..Len(fn.values) : fn.values[k].to \in fn.q.arbitrary_fields

\* The filters of a value that have an equal sign.
Filters(value) == {n \in 1..Len(value.filters) : Len(value.filters[n]) = 2}

\* The field of a filter resolves from a model, under the censor of the
\* call.
FilterResolves(f, model) ==
    check_field(Segments(f[1]), model, fn.q.censor, {}, DGEQ_MAX_NESTED_FIELD_DEPTH).ok

\* The predicates of the filters of a value, in order.
Predicates(value) ==
    [n \in 1..Len(value.filters) |->
        Filter_get(Filter(value.filters[n][1], value.filters[n][2], fn.q.case, fn.q.model,
                          fn.q.censor, {})).q]

\* The annotation applied for a value is restricted by all its filters.
Restricted(value) ==
    \E n \in 1..Len(fn.q.queryset.ops) :
        /\ fn.q.queryset.ops[n].op = "annotate"
        /\ fn.q.queryset.ops[n].name = value.to
        /\ fn.q.queryset.ops[n].filter = Predicates(value)

\* C18: the filters of an annotation are resolved from the model of the
\* query, not from the model its relation leads to: rivers.length is
\* accepted on Country and length is rejected as an unknown field; and the
\* annotation is restricted by all of its filters together.
C18_SubFiltersOfMainModel ==
    (fn.name = "Compute" /\ fn.key = "c:annotate" /\ fn.pc # "new") =>
        /\ fn.compiled =>
              \A k \in 1..Len(fn.values) : \A n \in Filters(fn.values[k]) :
                  FilterResolves(fn.values[k].filters[n], fn.q.model)
        /\ (/\ check_field_and_to("c:annotate", fn.values[1], fn.q.model, fn.q.censor,
                                  {}).kind = "none"
            /\ 1 \in Filters(fn.values[1])
            /\ ~FilterResolves(fn.values[1].filters[1], fn.q.model))
              => /\ ~fn.compiled
                 /\ fn.exc = check_field(Segments(fn.values[1].filters[1][1]), fn.q.model,
                                         fn.q.censor, {}, DGEQ_MAX_NESTED_FIELD_DEPTH).exc
                 /\ Len(Segments(fn.values[1].filters[1][1])) = 1 =>
                        /\ fn.exc.kind = "UnknownFieldError"
                        /\ fn.exc.table = fn.q.model
                        /\ fn.exc.unknown = fn.values[1].filters[1][1]
        /\ fn.pc = "applied" => \A k \in 1..Len(fn.values) : Restricted(fn.values[k])

\* An annotation with the filters rivers.length=>2000 and name=^A has been
\* applied, and holds both predicates.
C18_Witness ==
    /\ fn.name = "Compute"
    /\ fn.pc = "applied"
    /\ fn.values = <<Computed(<<"rivers">>, "rc0", "count", "1",
                              <<SubFilters.rivers_length, SubFilters.name>>)>>
    /\ Len(fn.q.queryset.ops) = 1
    /\ Len(fn.q.queryset.ops[1].filter) = 2
    /\ fn.q.queryset.ops[1].filter[1].path = <<"rivers", "length">>

(***************************************************************************)
(* Properties of the selection of fields.                                  *)
(***************************************************************************)
\* The names the claim selects from the fields of a model: the show names
\* when there are some, else all the names less the hide names.
Selection(all, show, hide) == IF show # <<>> THEN Range(show) ELSE all \ Range(hide)

\* The names the censor of the call hides in a model.
HiddenIn(model) == {f \in FieldNames(model) : is_private(fn.q.censor, model, f)}

\* The model a made join leads to.
JoinModel == RelatedModel(get_field(fn.value.field, fn.q.model).model,
                          get_field(fn.value.field, fn.q.model).name)

\* The keys of the rows of the query, at their first level.
RowKeys == {p[1] : p \in {p \in fn.rows : Len(p) = 1}}

RECURSIVE WellRendered(_, _, _)
WellRendered(row, item, path) ==
    \A f \in DOMAIN row \cap RelationFields(item.model) :
        LET joined  == Append(path, f) \in DOMAIN fn.q.joins
            to      == RelatedModel(item.model, f)
            related == getattr_one(fn.db, item, f)
            pks     == Sorted(getattr_all(fn.db, item, f))
        IN  IF is_one(item.model, f)
            THEN IF joined
                 THEN /\ row[f].kind = "row"
                      /\ related # NoInstance => WellRendered(row[f].row, related, Append(path, f))
                 ELSE IF related = NoInstance THEN row[f].kind = "None"
                 ELSE row[f].kind = "pk" /\ row[f].pk = related.pk
            ELSE IF joined
                 THEN /\ row[f].kind = "rows"
                      /\ Len(row[f].rows) = Len(pks)
                      /\ \A n \in 1..Len(pks) :
                            WellRendered(row[f].rows[n], Instance(to, pks[n]), Append(path, f))
                 ELSE row[f].kind = "pks" /\ row[f].pks = pks

\* C20: in a serialized row, at the root and at every level below it, a
\* relation with a join is rendered as one row when to-one and as a list of
\* rows when to-many, and a relation without a join as the primary key of
\* the related instance (None when there is none) when to-one and as the
\* list of the primary keys when to-many: serializing ends with such a row.
C20_RelationsRendered ==
    fn.name = "Rows" =>
        /\ fn.pc = "serialized" => WellRendered(fn.row.row, fn.instance, <<>>)
        /\ fn.pc = "raised" => fn.exc # AttributeError

(***************************************************************************)
(* Properties of the censor.                                               *)
(***************************************************************************)
\* The four lists in the order of the claim; the first and third are
\* public lists.
CensorRules == <<"public", "private", "dgeq_public", "dgeq_private">>

\* The lists that declare the model of the call.
Applicable == {n \in 1..4 : fn.model \in DOMAIN fn.c[CensorRules[n]]}

\* The decision of the n-th list.
RuleDecides(n) ==
    IF n \in {1, 3} THEN fn.field \notin fn.c[CensorRules[n]][fn.model]
    ELSE fn.field \in fn.c[CensorRules[n]][fn.model]

\* The permission check marks the field private before any list is read.
PermissionDecides ==
    /\ fn.c.use_permissions
    /\ is_relation(fn.model, fn.field)
    /\ RelatedModel(fn.model, fn.field) \notin fn.c.perms

Naturals_texts == {"0", "1", "2", "200", "201"}

\* The start and the limit of the call, with their defaults.
StartText == IF fn.start = <<>> THEN "0" ELSE fn.start[1]

LimitText == IF fn.limit = <<>> THEN "1" ELSE fn.limit[1]

RowsBefore == QuerySet_rows(fn.before.queryset.ops, Table)

RowsAfter == QuerySet_rows(fn.q.queryset.ops, Table)

\* C23: the pagination handler keeps the rows at the positions start to
\* start+limit-1 of the current query when limit > 0 and all the rows from
\* start when limit = 0, start defaulting to 0 and limit to 1; a c:start or
\* c:limit that is no non-negative integer raises InvalidCommandError and
\* leaves the query unchanged.
C23_Pagination ==
    (fn.name = "Subset" /\ fn.pc # "new") =>
        IF StartText \in Naturals_texts /\ LimitText \in Naturals_texts
        THEN /\ fn.pc = "returned"
             /\ \A n \in 1..Len(RowsAfter) : RowsAfter[n] = RowsBefore[int(StartText) + n]
             /\ Len(RowsAfter) =
                    IF int(LimitText) = 0 \/ int(StartText) + int(LimitText) > Len(RowsBefore)
                    THEN Len(RowsBefore) - int(StartText)
                    ELSE int(LimitText)
        ELSE /\ fn.pc = "raised"
             /\ fn.exc.kind = "InvalidCommandError"
             /\ fn.q = fn.before

\* C24: DGEQ_MAX_LIMIT being non-zero, a c:limit above it makes the
\* pagination handler raise InvalidCommandError, and no query it returns
\* holds more than DGEQ_MAX_LIMIT rows.
C24_MaxLimit ==
    (fn.name = "Subset" /\ fn.pc # "new" /\ DGEQ_MAX_LIMIT # 0) =>
        /\ (LimitText \in Naturals_texts /\ int(LimitText) > DGEQ_MAX_LIMIT) =>
               fn.pc = "raised" /\ fn.exc.kind = "InvalidCommandError"
        /\ fn.pc = "returned" => Len(RowsAfter) <= DGEQ_MAX_LIMIT


(***************************************************************************)
(* Properties of the dispatch.                                             *)
(***************************************************************************)
\* The reserved names, and the handler of each.
Directive ==
    [k \in {"c:case", "c:sort", "c:show", "c:hide", "c:start", "c:limit", "c:join",
            "c:annotate", "c:aggregate", "c:count", "c:time", "c:evaluate", "c:related"} |->
        CASE k = "c:case" -> "Case"
          [] k = "c:sort" -> "Sort"
          [] k \in {"c:show", "c:hide"} -> "Show"
          [] k \in {"c:start", "c:limit"} -> "Subset"
          [] k = "c:join" -> "Join"
          [] k = "c:annotate" -> "Annotate"
          [] k = "c:aggregate" -> "Aggregate"
          [] k = "c:count" -> "Count"
          [] k = "c:time" -> "Time"
          [] k = "c:evaluate" -> "Evaluate"
          [] k = "c:related" -> "Related"]

\* The handlers selected for the n-th key.
Reached(n) == {fn.calls[i].command : i \in {i \in 1..Len(fn.calls) : fn.calls[i].index = n}}

\* C25: every key reaches one kind of handler: a reserved name reaches the
\* handler of its directive and no other, the filter handler included; any
\* other key, whatever its first character, reaches the filter handler and
\* no other.
C25_OneKindOfHandler ==
    (fn.name = "Dispatch" /\ fn.pc = "done") =>
        \A n \in 1..Len(fn.keys) :
            Reached(n) = IF fn.keys[n] \in DOMAIN Directive
                         THEN {Directive[fn.keys[n]]} ELSE {"Filtering"}


(***************************************************************************)
(* Properties of the arbitrary fields.                                     *)
(***************************************************************************)
\* C26: under every censor, the one-segment path of a declared arbitrary
\* field resolves to the model of the call and that name, although the
\* schema has no such field; a path that goes on after it raises
\* NotARelatedFieldError; and a path that does not begin with an arbitrary
\* field resolves as it does without arbitrary fields.
C26_ArbitraryResolves ==
    (cf.called /\ Len(cf.field) < cf.max_depth) =>
        /\ (Len(cf.field) = 1 /\ cf.field[1] \in cf.arbitrary_fields) =>
               /\ cf.result.ok
               /\ cf.result.model = cf.model
               /\ cf.result.field = cf.field[1]
        /\ (Len(cf.field) > 1 /\ cf.field[1] \in cf.arbitrary_fields) =>
               cf.result.exc.kind = "NotARelatedFieldError"
        /\ cf.field[1] \notin cf.arbitrary_fields =>
               cf.result = check_field(cf.field, cf.model, cf.censor, {}, cf.max_depth)


(***************************************************************************)
(* Properties of the tree of joins.                                        *)
(***************************************************************************)
Prefixes(paths) == UNION {{SubSeq(path, 1, n) : n \in 1..Len(path)} : path \in paths}

\* The relations of the node at a path that have a node of their own.
Children(joins, path) ==
    {f \in {"rivers", "region", "countries"} : Append(path, f) \in DOMAIN joins}

OneNodePerPrefix ==
    /\ DOMAIN fn.joins = Prefixes(Range(fn.added))
    /\ \A path \in DOMAIN fn.joins :
           /\ fn.joins[path].field = path
           /\ \A f \in Children(fn.joins, path) :
                  /\ f \in fn.joins[path].unique_foreign_field <=> is_one(fn.joins[path].model, f)
                  /\ f \in fn.joins[path].many_foreign_fields <=> is_many(fn.joins[path].model, f)

\* No path is added after a path that goes on from it.
ShallowBeforeDeep ==
    \A i, j \in 1..Len(fn.added) :
        i < j => ~(IsPrefix(fn.added[j], fn.added[i]) /\ fn.added[j] # fn.added[i])

\* C27, as stated: after any sequence of add_join calls, the tree holds
\* one node for each prefix of the added paths and no other, each node
\* records each of its children once, in the set of its kind; a path added
\* twice leaves the nodes of the path added once.
C27_AnySequence == (fn.name = "Tree" /\ fn.pc = "open") => OneNodePerPrefix

\* C27, amended: the same, after any sequence of add_join calls in which no
\* path is added after a path that goes on from it.
C27_OneNodePerPrefix ==
    (fn.name = "Tree" /\ fn.pc = "open" /\ ShallowBeforeDeep) => OneNodePerPrefix

\* `a.b`, `a.c` and `a.b` again have been added: the node `a` has the two
\* children.
C27_Witness ==
    /\ fn.name = "Tree" /\ fn.pc = "open" /\ ShallowBeforeDeep
    /\ fn.added = << <<"countries", "region">>, <<"countries", "rivers">>,
                     <<"countries", "region">> >>
    /\ Children(fn.joins, <<"countries">>) = {"region", "rivers"}

ProperPrefix(p, path) == IsPrefix(p, path) /\ p # path

\* The node of the tree at a path is the declared one: the fields it
\* shows, its sort, its limit and its filters are those of the declaration.
IsDeclared(node, declared) ==
    /\ node.model = declared.model /\ node.field = declared.field
    /\ node.fields = declared.fields
    /\ node.start = declared.start /\ node.limit = declared.limit
    /\ node.sort = declared.sort /\ node.filters = declared.filters
    /\ declared.unique_foreign_field \subseteq node.unique_foreign_field
    /\ declared.many_foreign_fields \subseteq node.many_foreign_fields

\* C28: whatever the order of the declarations, the join handler adds the
\* joins by depth, never a join before a declared join its path goes on
\* from; at the end every declared join is the node at its path, as
\* declared, and holds a node for every declared join one relation further,
\* recorded among its relations; the handler as a whole leaves that tree.
C28_ShallowestFirst ==
    (fn.name = "Attach" /\ fn.pc \in {"sorted", "done"}) =>
        /\ \A i, j \in 1..Len(fn.order) :
               /\ i < j => Len(fn.order[i]) <= Len(fn.order[j])
               /\ ProperPrefix(fn.order[i], fn.order[j]) => i < j
        /\ fn.pc = "done" =>
               /\ Range(fn.order) = DOMAIN fn.made
               /\ \A path \in DOMAIN fn.made :
                      /\ path \in DOMAIN fn.q.joins
                      /\ IsDeclared(fn.q.joins[path], fn.made[path])
                      /\ \A f \in Children(fn.made, path) :
                             /\ f \in Children(fn.q.joins, path)
                             /\ f \in fn.q.joins[path].unique_foreign_field
                                          \cup fn.q.joins[path].many_foreign_fields
               /\ Join(GenericQuery("Country", NoCensor),
                       <<[key |-> "c:join", lst |-> fn.lst]>>) = Returns(fn.q)

\* `rivers.countries` was declared before `rivers`, the latter with a show,
\* a sort, a limit and a filter: the node of rivers is the declared one and
\* holds the node of countries.
C28_Witness ==
    /\ fn.name = "Attach" /\ fn.pc = "done"
    /\ Len(fn.lst) = 2
    /\ fn.lst[1].field = <<"rivers", "countries">> /\ fn.lst[2].field = <<"rivers">>
    /\ fn.order = << <<"rivers">>, <<"rivers", "countries">> >>
    /\ fn.q.joins[<<"rivers">>].fields = {"name"}
    /\ fn.q.joins[<<"rivers">>].limit = 1
    /\ fn.q.joins[<<"rivers">>].sort = <<"-name">>
    /\ Len(fn.q.joins[<<"rivers">>].filters) = 1
    /\ Children(fn.q.joins, <<"rivers">>) = {"countries"}


(***************************************************************************)
(* Properties of the result of evaluate().                                 *)
(***************************************************************************)
\* C30: whatever the input, an exception raised in evaluate() is caught by
\* one of its two clauses, and what evaluate() returns is a mapping with
\* the key status; status is true exactly when nothing raised; a result
\* whose status is false has a code and a message and no rows; a result
\* whose status is true has rows when the query is to be evaluated.
C30_ResultEnvelope ==
    /\ pc = "raised" => (exc.kind # "none" /\ ENABLED (ExceptDgeqError \/ ExceptException))
    /\ pc = "done" =>
           /\ "status" \in DOMAIN output
           /\ output["status"] \in BOOLEAN
           /\ output["status"] <=> exc.kind = "none"
           /\ ~output["status"] =>
                  /\ {"code", "message"} \subseteq DOMAIN output
                  /\ "rows" \notin DOMAIN output
           /\ (output["status"] /\ query.evaluated) => "rows" \in DOMAIN output

\* A handler of the second stage raised after the rows were computed: the
\* result has a code and a message and no rows.
C30_Witness ==
    /\ pc = "done"
    /\ "rows" \in DOMAIN query.result
    /\ exc.kind = "InvalidCommandError"
    /\ ~output["status"]
    /\ "rows" \notin DOMAIN output


(***************************************************************************)
(* Properties of the prefetch.                                             *)
(***************************************************************************)
\* The outcome of fetching the joins for the n-th country, with the
\* prefetch applied or not.
FetchOutcome(n, prefetched) ==
    LET outcome(r) == [exc |-> r.exc, val |-> r.val]
    IN  outcome(fetch_joins(fn.db, fn.q.joins, Instance("Country", fn.items[n]), prefetched))

\* C29: for every tree of joins, those of depth 2 and 3 whose last join has
\* filters, a sort and a limit included, and every country, fetch gives the
\* same rows in the same order with the prefetch of the tree applied to the
\* queryset as without it.
C29_PrefetchKeepsRows ==
    (fn.name = "Fetch" /\ fn.pc = "rows") =>
        \A n \in 1..Len(fn.rows) :
            /\ fn.rows[n] = FetchOutcome(n, fn.prefetched)
            /\ fn.rows[n] = FetchOutcome(n, ~fn.prefetched)

\* C21: in an evaluation with the prefetch applied, every join of the tree
\* is loaded, once, when the queryset is iterated and so before the first
\* row is fetched; fetching the rows makes no storage call; the calls of
\* the evaluation are those of the queryset and of its lookups, a number
\* the tree decides, whatever the number of rows and whether or not a join
\* has filters, a sort or a limit.
C21_LoadedOnce ==
    (fn.name = "Fetch" /\ fn.prefetched /\ fn.pc = "rows") =>
        /\ fn.loaded = DOMAIN fn.q.joins
        /\ fn.loads = 1 + prefetch_calls(fn.q.joins)
        /\ fn.calls = 0

====
